---- MODULE Spec2Model ----
(***************************************************************************)
(* disk-tree: scanner (find/index.py), scan store (sqla/model.py) and      *)
(* query layer (server.py).                                                *)
(*                                                                         *)
(* A Python string is modelled by its split on "/": a non-empty sequence   *)
(* of slash-free components ("" = <<"">>, "/" = <<"","">>,                 *)
(* "/t/a" = <<"","t","a">>, "s3://k/a" = <<"s3:","","k","a">>).  The split *)
(* is a bijection, so s + "/" + t is s \o t and every string operation the *)
(* code uses (startswith, slicing, rstrip, dirname, count) is computed on  *)
(* the components.  Entry names are single characters, so comparing two    *)
(* relative paths component by component by character code is exactly      *)
(* Python's string comparison.                                             *)
(***************************************************************************)
EXTENDS Integers, Sequences, FiniteSets, TLC

VARIABLES
    fs,      \* the live sources: local filesystem nodes and the keys of bucket k
    scans,   \* catalog table `scan`, in insertion order
    blobs,   \* scans directory: blob name -> table (sequence of rows)
    resp,    \* the last response of the query layer
    cache,   \* server: _cache, key -> cached result (entries within their TTL)
    pcache,  \* server: _parquet_cache, <<blob, min_depth, max_depth>> -> frame
    gc,      \* the running Scan.gc call: its position and local variables
    progress,\* table `scan_progress`
    job,     \* the calls in progress (tracked Scan.create calls, request threads,
             \* scan jobs): position and local variables of each
    walk     \* files_iter: the child process, its two pipes and the reader

vars == <<fs, scans, blobs, resp, cache, pcache, gc, progress, job, walk>>

\* the state of the command-line processes
cli == <<gc, progress, job, walk>>

\* no gc call, no tracked scan and no walk is in progress
CliIdle ==
    /\ gc = [pc |-> "idle"]
    /\ progress = {}
    /\ job = <<>>
    /\ walk = [pc |-> "idle"]

----------------------------------------------------------------------------
(* Strings *)

EmptyStr == <<"">>
Dot      == <<".">>
Slash    == <<"", "">>
None     == <<>>          \* Python None / SQL NULL / NaN in a path column

Max(S) == CHOOSE x \in S : \A y \in S : y <= x

RECURSIVE SumInts(_)
SumInts(s) == IF s = <<>> THEN 0 ELSE Head(s) + SumInts(Tail(s))

MaxInts(s) == Max({s[i] : i \in 1..Len(s)})

\* character code of a one-character component ("" compares below all)
Ord(c) ==
    CASE c = ""  -> 0
      [] c = "-" -> 45
      [] c = "." -> 46
      [] c = "a" -> 97
      [] c = "b" -> 98
      [] c = "c" -> 99
      [] c = "f" -> 102
      [] c = "k" -> 107
      [] c = "l" -> 108
      [] c = "t" -> 116
      [] c = "u" -> 117
      [] c = "x" -> 120
      [] OTHER   -> 127

\* p < q as Python strings
RECURSIVE StrLess(_, _)
StrLess(p, q) ==
    IF p = <<>> THEN q # <<>>
    ELSE IF q = <<>> THEN FALSE
    ELSE IF Head(p) = Head(q) THEN StrLess(Tail(p), Tail(q))
    ELSE Ord(Head(p)) < Ord(Head(q))

\* s.rstrip('/')
RStrip(s) ==
    LET idx == {i \in 1..Len(s) : s[i] # ""}
    IN  IF idx = {} THEN EmptyStr ELSE SubSeq(s, 1, Max(idx))

\* s.startswith(t + '/')
StartsWithDir(s, t) == Len(s) > Len(t) /\ SubSeq(s, 1, Len(t)) = t

\* s[len(t)+1:] for a string s that starts with t + '/'
StripDir(s, t) == SubSeq(s, Len(t) + 1, Len(s))

\* posixpath.dirname
Dirname(s) ==
    IF Len(s) = 1 THEN EmptyStr
    ELSE LET head == Append(SubSeq(s, 1, Len(s) - 1), "")
         IN  IF \A i \in 1..Len(head) : head[i] = "" THEN head ELSE RStrip(head)

\* s.count('/')
CountSlash(s) == Len(s) - 1

\* the sequence of the elements of a set of strings, ascending
RECURSIVE SortedStrs(_)
SortedStrs(S) ==
    IF S = {} THEN <<>>
    ELSE LET m == CHOOSE x \in S : \A y \in S \ {x} : StrLess(x, y)
         IN  <<m>> \o SortedStrs(S \ {m})

\* pd.concat of a list of frames
RECURSIVE Flatten(_)
Flatten(ss) == IF ss = <<>> THEN <<>> ELSE Head(ss) \o Flatten(Tail(ss))

----------------------------------------------------------------------------
(* The sources that are scanned.  fs.local maps each absolute path that    *)
(* exists to what gfind prints for it (type letter, 512-byte blocks,       *)
(* mtime); fs.s3 maps each key of bucket k to its listing line.            *)

Bucket == "k"
S3Scheme == <<"s3:", "">>                 \* "s3:/" ; "s3://" is S3Scheme \o <<"">>
TRoot  == <<"", "t">>                     \* /t
XRoot  == <<"", "x">>                     \* /x, which never exists
KRoot  == S3Scheme \o <<Bucket>>          \* s3://k

\* p.startswith('s3://')
IsS3(p) == Len(p) >= 3 /\ SubSeq(p, 1, 2) = S3Scheme

\* the entries a tree may hold below its root, by relative path
Cand == {<<"-">>, <<"a">>, <<"b">>, <<"a", "b">>, <<"a", "b", "c">>}

Blk(c) ==
    CASE c = <<"-">>           -> 1
      [] c = <<"a">>           -> 2
      [] c = <<"b">>           -> 4
      [] c = <<"a", "b">>      -> 8
      [] c = <<"a", "b", "c">> -> 16
      [] OTHER                 -> 32

\* shapes: each candidate is absent, a file, a directory or a symlink, and
\* an entry exists only inside a directory
Shapes ==
    {f \in [Cand -> {"none", "f", "d", "l"}] :
        \A c \in Cand : (Len(c) > 1 /\ f[c] # "none") => f[SubSeq(c, 1, Len(c) - 1)] = "d"}

\* the tree of shape f under /t and the same files as keys of bucket k;
\* dblk = blocks gfind reports for a directory itself, ver scales sizes;
\* bytes is st_size, which differs from the allocated blocks * 512
World(f, dblk, ver) ==
    LET present == {c \in Cand : f[c] # "none"}
        lnodes  == {TRoot} \cup {TRoot \o c : c \in present}
        ltype(n) == IF n = TRoot THEN "d" ELSE f[StripDir(n, TRoot)]
        lblk(n)  == IF n = TRoot THEN 32 ELSE Blk(StripDir(n, TRoot))
        keys    == {c \in Cand : f[c] = "f"}
    IN  [ local |-> [n \in lnodes |->
                        [ type   |-> ltype(n),
                          blocks |-> IF ltype(n) = "d" THEN dblk * lblk(n) ELSE ver * lblk(n),
                          bytes  |-> ver * lblk(n) * 500,
                          mtime  |-> ver * lblk(n) ]],
          s3    |-> [key \in keys |-> [size |-> ver * Blk(key), mtime |-> ver * Blk(key)]] ]

----------------------------------------------------------------------------
(* Walker: find/index.py *)

\* the records gfind prints for path0, parents before children
GfindOutput(w, path0) ==
    LET nodes == {n \in DOMAIN w.local : n = path0 \/ StartsWithDir(n, path0)}
        order == SortedStrs(nodes)
    IN  [i \in 1..Len(order) |->
            [ type |-> w.local[order[i]].type, blocks |-> w.local[order[i]].blocks,
              mtime |-> w.local[order[i]].mtime, filepath |-> order[i] ]]

\* files_iter, local branch: one record per parsed line
LocalFilesIter(w, path0) ==
    LET out  == GfindOutput(w, path0)
        keep == SelectSeq(out, LAMBDA r : StartsWithDir(r.filepath, path0) \/ r.filepath = path0)
        rel(fp) == IF fp # path0 THEN StripDir(fp, path0) ELSE EmptyStr
    IN  [i \in 1..Len(keep) |->
            [ path   |-> rel(keep[i].filepath),
              size   |-> keep[i].blocks * 512,
              mtime  |-> keep[i].mtime,
              kind   |-> IF keep[i].type = "f" THEN "file"
                         ELSE IF keep[i].type = "d" THEN "dir" ELSE keep[i].type,
              parent |-> Dirname(rel(keep[i].filepath)),
              uri    |-> keep[i].filepath ]]

\* the lines of `aws s3 ls --recursive path`, in key order
S3Listing(w, path) ==
    LET bkt  == path[3]
        key0 == IF Len(path) > 3 THEN SubSeq(path, 4, Len(path)) ELSE EmptyStr
        keys == IF bkt # Bucket THEN {}
                ELSE {k \in DOMAIN w.s3 : key0 = EmptyStr \/ k = key0 \/ StartsWithDir(k, key0)}
        order == SortedStrs(keys)
    IN  [i \in 1..Len(order) |->
            [key |-> order[i], size |-> w.s3[order[i]].size, mtime |-> w.s3[order[i]].mtime]]

\* the while-loop of s3_files_iter: the prefixes of cur0 not yet in dirs, deepest first
RECURSIVE S3NewDirs(_, _)
S3NewDirs(cur0, dirs) ==
    LET cur  == IF Len(cur0) > 1 THEN SubSeq(cur0, 1, Len(cur0) - 1) ELSE EmptyStr
        seen == cur \in dirs
        nd   == IF seen THEN <<>> ELSE <<cur>>
    IN  IF cur = EmptyStr \/ seen THEN nd ELSE nd \o S3NewDirs(cur, dirs \cup {cur})

\* mutant of Reverse: the order of new_dirs is kept, deepest first
KeptOrder(s) == s

\* reversed(new_dirs)
Reverse(s) == [i \in 1..Len(s) |-> s[Len(s) + 1 - i]]

RECURSIVE S3Emit(_, _, _, _)
S3Emit(lines, dirs, bkt, key0) ==
    IF lines = <<>> THEN <<>>
    ELSE LET ln      == Head(lines)
             relpath == IF key0 # EmptyStr
                        THEN (IF ln.key # key0 THEN StripDir(ln.key, key0) ELSE EmptyStr)
                        ELSE ln.key
         IN  IF relpath = EmptyStr THEN S3Emit(Tail(lines), dirs, bkt, key0)
             ELSE LET nd   == S3NewDirs(relpath, dirs)
                      base == IF key0 # EmptyStr THEN S3Scheme \o <<bkt>> \o key0
                              ELSE S3Scheme \o <<bkt>>
                      drec(d) == [ path |-> d, size |-> 0, mtime |-> 0, kind |-> "dir",
                                   parent |-> IF d # EmptyStr THEN Dirname(d) ELSE None,
                                   uri |-> base \o d ]
                      rnd  == Reverse(nd)
                      frec == [ path |-> relpath, size |-> ln.size, mtime |-> ln.mtime,
                                kind |-> "file", parent |-> Dirname(relpath),
                                uri |-> S3Scheme \o <<bkt>> \o ln.key ]
                  IN  [i \in 1..Len(rnd) |-> drec(rnd[i])] \o <<frec>>
                        \o S3Emit(Tail(lines), dirs \cup {nd[i] : i \in 1..Len(nd)}, bkt, key0)

s3_files_iter(w, path) ==
    S3Emit(S3Listing(w, path), {}, path[3],
           IF Len(path) > 3 THEN SubSeq(path, 4, Len(path)) ELSE EmptyStr)

files_iter(w, path) ==
    IF IsS3(path) THEN s3_files_iter(w, path) ELSE LocalFilesIter(w, path)

----------------------------------------------------------------------------
(* Aggregator: find/index.py, index *)

\* depth column: 0 for '.', else p.count('/') + 1
PathDepth(p) == IF p = Dot THEN 0 ELSE CountSlash(p) + 1

\* the synthetic root row of an empty source
EmptyRootRow(path0) ==
    [ path |-> Dot, size |-> 0, mtime |-> 0, n_desc |-> 0, n_children |-> 0,
      kind |-> "dir", parent |-> EmptyStr, uri |-> path0 ]

\* df.groupby('path'), keys ascending: size/n_desc/n_children summed, mtime max
GroupByPath(rows) ==
    LET keys == SortedStrs({rows[i].path : i \in 1..Len(rows)})
    IN  [j \in 1..Len(keys) |->
            LET g == SelectSeq(rows, LAMBDA r : r.path = keys[j])
            IN  [ path       |-> keys[j],
                  size       |-> SumInts([i \in 1..Len(g) |-> g[i].size]),
                  mtime      |-> MaxInts([i \in 1..Len(g) |-> g[i].mtime]),
                  n_desc     |-> SumInts([i \in 1..Len(g) |-> g[i].n_desc]),
                  n_children |-> SumInts([i \in 1..Len(g) |-> g[i].n_children]),
                  count      |-> Len(g) ]]

\* one pass of the while-loop: the rows of cur collapsed into their parents
CollapseLevel(cur, level) ==
    LET moved   == [i \in 1..Len(cur) |-> [cur[i] EXCEPT !.path = cur[i].parent]]
        grouped == GroupByPath(moved)
    IN  [j \in 1..Len(grouped) |->
            [ path       |-> grouped[j].path,
              size       |-> grouped[j].size,
              mtime      |-> grouped[j].mtime,
              n_desc     |-> grouped[j].n_desc,
              n_children |-> IF level = 0 THEN grouped[j].count ELSE 0,
              parent     |-> Dirname(grouped[j].path) ]]

\* mutant of AggLevels: the loop stops after its first pass
AggLevelsOnePass(cur0, level) ==
    LET cur == SelectSeq(cur0, LAMBDA r : r.path # EmptyStr)
    IN  IF cur = <<>> THEN <<>> ELSE <<CollapseLevel(cur, level)>>

\* the while-loop: every level collapses its rows into their parents, until
\* only the root is left
RECURSIVE AggLevels(_, _)
AggLevels(cur0, level) ==
    LET cur == SelectSeq(cur0, LAMBDA r : r.path # EmptyStr)
    IN  IF cur = <<>> THEN <<>>
        ELSE <<CollapseLevel(cur, level)>> \o AggLevels(CollapseLevel(cur, level), level + 1)

\* mutant of AggDirs: directories directly under the root keep parent ''
AggDirsNoDotParent(dir_dfs, path0) ==
    LET all == Flatten(dir_dfs)
    IN  IF all = <<>> THEN <<EmptyRootRow(path0)>>
        ELSE LET grouped == GroupByPath(all)
                 pth(p)  == IF p = EmptyStr THEN Dot ELSE p
             IN  [j \in 1..Len(grouped) |->
                    [ path       |-> pth(grouped[j].path),
                      size       |-> grouped[j].size,
                      mtime      |-> grouped[j].mtime,
                      n_desc     |-> grouped[j].n_desc,
                      n_children |-> grouped[j].n_children,
                      kind       |-> "dir",
                      parent     |-> Dirname(grouped[j].path),
                      uri        |-> IF pth(grouped[j].path) = Dot THEN path0
                                     ELSE path0 \o grouped[j].path ]]

\* the directory rows: all levels and the walker's own directory records, summed
AggDirs(dir_dfs, path0) ==
    LET all == Flatten(dir_dfs)
    IN  IF all = <<>> THEN <<EmptyRootRow(path0)>>
        ELSE LET grouped == GroupByPath(all)
                 par(p)  == IF p = EmptyStr THEN EmptyStr
                            ELSE IF Dirname(p) = EmptyStr THEN Dot ELSE Dirname(p)
                 pth(p)  == IF p = EmptyStr THEN Dot ELSE p
             IN  [j \in 1..Len(grouped) |->
                    [ path       |-> pth(grouped[j].path),
                      size       |-> grouped[j].size,
                      mtime      |-> grouped[j].mtime,
                      n_desc     |-> grouped[j].n_desc,
                      n_children |-> grouped[j].n_children,
                      kind       |-> "dir",
                      parent     |-> par(grouped[j].path),
                      uri        |-> IF pth(grouped[j].path) = Dot THEN path0
                                     ELSE path0 \o grouped[j].path ]]

\* the order of the rows of the final table: .sort_values('path')
RowLess(r1, r2) == StrLess(r1.path, r2.path)

AddDepth(rows) ==
    [i \in 1..Len(rows) |->
        [ path |-> rows[i].path, size |-> rows[i].size, mtime |-> rows[i].mtime,
          n_desc |-> rows[i].n_desc, n_children |-> rows[i].n_children,
          kind |-> rows[i].kind, parent |-> rows[i].parent, uri |-> rows[i].uri,
          depth |-> PathDepth(rows[i].path) ]]

\* pd.concat([dirs, files]): the rows of the table before they are sorted
IndexRows(recs, path0) ==
    LET df == [i \in 1..Len(recs) |->
                 [ path |-> recs[i].path, size |-> recs[i].size, mtime |-> recs[i].mtime,
                   kind |-> recs[i].kind, parent |-> recs[i].parent, uri |-> recs[i].uri,
                   n_desc |-> 1, n_children |-> 0 ]]
    IN  IF df = <<>> THEN <<EmptyRootRow(path0)>>
        ELSE LET files == SelectSeq(df, LAMBDA r : r.kind = "file")
                 dirs0 == SelectSeq(df, LAMBDA r : r.kind = "dir")
                 dirs  == AggDirs(<<dirs0>> \o AggLevels(df, 0), path0)
             IN  dirs \o files

\* the table of one scan (IndexResult.df) from the walker's records
IndexTable(recs, path0) == AddDepth(SortSeq(IndexRows(recs, path0), RowLess))

\* the positions of a sorted table whose row has the same path as the next
TiedAt(base) == {i \in 1..(Len(base) - 1) : base[i].path = base[i + 1].path}

\* base with the rows at i and i + 1 exchanged for every i in T
SwapAt(base, T) ==
    [i \in 1..Len(base) |->
        IF i \in T THEN base[i + 1] ELSE IF i > 1 /\ (i - 1) \in T THEN base[i - 1] ELSE base[i]]

\* .sort_values('path') with the default kind='quicksort', which is not
\* stable: rows of equal path (a directory row and a file row, at most two)
\* come out in either order
SortedOrders(rows) ==
    LET base == SortSeq(rows, RowLess)
    IN  {SwapAt(base, T) : T \in SUBSET TiedAt(base)}

\* the tables index can return for the records in the order delivered
IndexTables(recs, path0) == {AddDepth(t) : t \in SortedOrders(IndexRows(recs, path0))}

index(w, path) == IndexTable(files_iter(w, RStrip(path)), RStrip(path))

----------------------------------------------------------------------------
(* Scan store: sqla/model.py *)

\* the blob name of the next scan (uuid4: a name never in use)
NewBlob == Max(DOMAIN blobs \cup {scans[i].blob : i \in 1..Len(scans)} \cup {0}) + 1

\* the id of the next catalog row (sqlite rowid: the greatest id + 1)
NewId == Max({scans[i].id : i \in 1..Len(scans)} \cup {0}) + 1

\* Scan.create(path) at time now, gc=False: walk, aggregate, write the blob,
\* copy the stats of the first row whose parent is '' into the catalog row
ScanCreate(path0, now) ==
    LET path     == RStrip(path0)
        df       == index(fs, path)
        rootRows == SelectSeq(df, LAMBDA r : r.parent = EmptyStr)
        root     == rootRows[1]
    IN  /\ blobs' = (NewBlob :> df) @@ blobs
        /\ scans' = Append(scans,
              [ id |-> NewId, path |-> path, time |-> now, blob |-> NewBlob,
                size |-> root.size, n_children |-> root.n_children, n_desc |-> root.n_desc ])
        /\ resp' = [op |-> "none"]
        /\ UNCHANGED fs

----------------------------------------------------------------------------
(* Specification of a single scan of every tree shape *)

IndexRoots == {TRoot, XRoot, KRoot, KRoot \o <<"a">>}

InitIndex ==
    /\ fs \in {World(f, dblk, 1) : f \in Shapes, dblk \in {0, 1}}
    /\ scans = <<>>
    /\ blobs = <<>>
    /\ resp = [op |-> "none"]
    /\ cache = <<>>
    /\ pcache = <<>>
    /\ CliIdle

IndexOnce ==
    /\ scans = <<>>
    /\ \E path \in IndexRoots : ScanCreate(path, 1)
    /\ UNCHANGED <<cache, pcache>>
    /\ UNCHANGED cli

NextIndex == IndexOnce

SpecIndex == InitIndex /\ [][NextIndex]_vars

----------------------------------------------------------------------------
(* Properties of persisted tables *)

Rows(t) == {t[i] : i \in 1..Len(t)}

\* the tables of the scans directory
Tables == {blobs[b] : b \in DOMAIN blobs}

SumOfSet(S, F(_)) ==
    LET RECURSIVE Go(_)
        Go(T) == IF T = {} THEN 0
                 ELSE LET x == CHOOSE y \in T : TRUE IN F(x) + Go(T \ {x})
    IN  Go(S)

\* the rows of t that are direct children of directory row d
ChildRows(t, d) ==
    IF d.path = Dot
    THEN {r \in Rows(t) : r.parent = Dot \/ (r.parent = EmptyStr /\ r.path # Dot)}
    ELSE {r \in Rows(t) : r.parent = d.path}

DirRows(t) == {r \in Rows(t) : r.kind = "dir"}

RowSize(r) == r.size
RowNDesc(r) == r.n_desc

\* the walker records at or beneath the directory of row d
RecsUnder(recs, d) ==
    {i \in 1..Len(recs) :
        \/ d.path = Dot
        \/ recs[i].path = d.path
        \/ StartsWithDir(recs[i].path, d.path)}

C2_CountsMatchChildRows ==
    \A t \in Tables :
        /\ \A r \in Rows(t) : r.kind = "file" => r.n_desc = 1 /\ r.n_children = 0
        /\ \A d \in DirRows(t) :
              /\ d.n_desc = 1 + SumOfSet(ChildRows(t, d), RowNDesc)
              /\ d.n_children = Cardinality(ChildRows(t, d))

\* C3 as stated: exactly one row has path '.', and depth = 0, path = '.' and
\* parent = '' are equivalent for every row.
C3_RootRowEquivalences ==
    \A t \in Tables :
        /\ Cardinality({i \in 1..Len(t) : t[i].path = Dot}) = 1
        /\ \A r \in Rows(t) :
              /\ (r.depth = 0) <=> (r.path = Dot)
              /\ (r.path = Dot) <=> (r.parent = EmptyStr)

\* C3 amended: exactly one row has path '.'; a row has depth 0 iff its path is
\* '.'; the '.' row has parent ''; and a row with parent '' is either the '.'
\* row or a file directly under the root.
C3_RootRowAndRootFiles ==
    \A t \in Tables :
        /\ Cardinality({i \in 1..Len(t) : t[i].path = Dot}) = 1
        /\ \A r \in Rows(t) :
              /\ (r.depth = 0) <=> (r.path = Dot)
              /\ (r.path = Dot) => (r.parent = EmptyStr)
              /\ (r.parent = EmptyStr) => (r.path = Dot \/ (r.kind = "file" /\ r.depth = 1))

\* a table holds a file directly under the root
C3_Witness ==
    \E t \in Tables : \E r \in Rows(t) : r.kind = "file" /\ r.depth = 1 /\ r.parent = EmptyStr

\* C4 as stated: the rows of every blob are ordered by (depth, path)
\* ascending, so the rows of depth <= d are a prefix for every d.
C4_SortedByDepthThenPath ==
    \A t \in Tables : \A i \in 1..Len(t) : \A j \in 1..Len(t) :
        i < j => \/ t[i].depth < t[j].depth
                 \/ (t[i].depth = t[j].depth /\ StrLess(t[i].path, t[j].path))

\* C14: the catalog row of every scan carries the size, n_children and
\* n_desc of its table's root row, the row with path '.', whatever the names
\* of the entries directly under the root.
C14_CatalogRowCarriesRootStats ==
    \A i \in 1..Len(scans) : \E r \in Rows(blobs[scans[i].blob]) :
        /\ r.path = Dot
        /\ scans[i].size = r.size
        /\ scans[i].n_children = r.n_children
        /\ scans[i].n_desc = r.n_desc

----------------------------------------------------------------------------
(* Query layer: server.py.  Scan roots are directories, prefixes or        *)
(* missing paths; request URIs are absolute paths or s3:// URIs.           *)

Null == -1                    \* None / JSON null in a numeric field
NoScanId == 0                 \* the scan_id parameter is absent

SearchFuel == 6               \* iterations of the ancestor search that are followed

S3Root == S3Scheme \o <<"">>  \* the string 's3://'

\* uri.rstrip('/') or '/'
NormUri(u) == IF RStrip(u) = EmptyStr THEN Slash ELSE RStrip(u)

\* search_path: local URIs get a leading '/'
SearchPath(uri) ==
    IF IsS3(uri) THEN uri
    ELSE IF Len(uri) >= 2 /\ uri[1] = "" THEN uri ELSE <<"">> \o uri

\* search_path == scan_path or search_path.startswith(scan_path + '/')
Covers(scan_path, search_path) ==
    search_path = scan_path \/ StartsWithDir(search_path, scan_path)

ScanIdx == 1..Len(scans)
ScanPaths == {scans[i].path : i \in ScanIdx}
RowsOfPath(p) == {i \in ScanIdx : scans[i].path = p}

\* mutant of MostRecent: ORDER BY time ASC
LeastRecent(p) ==
    {i \in RowsOfPath(p) : \A j \in RowsOfPath(p) : scans[j].time >= scans[i].time}

\* the rows `ORDER BY time DESC LIMIT 1` may return for path p
MostRecent(p) ==
    {i \in RowsOfPath(p) : \A j \in RowsOfPath(p) : scans[j].time <= scans[i].time}

\* the while-loop over test_path: the first path with a scan, and whether
\* the loop was left within fuel iterations
RECURSIVE AncestorSearch(_, _)
AncestorSearch(test_path, fuel) ==
    IF test_path = EmptyStr THEN [hit |-> None, exited |-> TRUE]
    ELSE IF fuel = 0 THEN [hit |-> None, exited |-> FALSE]
    ELSE IF RowsOfPath(test_path) # {} THEN [hit |-> test_path, exited |-> TRUE]
    ELSE IF test_path = Slash \/ test_path = S3Root THEN [hit |-> None, exited |-> TRUE]
    ELSE IF Dirname(test_path) = test_path THEN [hit |-> None, exited |-> TRUE]
    ELSE AncestorSearch(Dirname(test_path), fuel - 1)

\* os.path.join(path, name)
Join(a, name) ==
    IF a[Len(a)] = "" THEN SubSeq(a, 1, Len(a) - 1) \o <<name>> ELSE a \o <<name>>

IsDir(w, p) == p = Slash \/ (p \in DOMAIN w.local /\ w.local[p].type = "d")
IsFile(w, p) == p \in DOMAIN w.local /\ w.local[p].type = "f"

\* one entry of a live listing, before it is merged with the catalog
LiveChild(name, uri, size, mtime, kind) ==
    [ path |-> <<name>>, parent |-> None, uri |-> uri, size |-> size, mtime |-> mtime,
      kind |-> kind, n_children |-> Null, n_desc |-> Null, depth |-> Null,
      scanned |-> "false", scan_time |-> Null, patched |-> FALSE ]

\* list_fs_children: os.stat follows links, a link (dangling) is skipped
list_fs_children(w, path) ==
    IF ~IsDir(w, path) THEN {}
    ELSE LET kids == {n \in DOMAIN w.local :
                         /\ Len(n) = Len(Join(path, "x"))
                         /\ n = Join(path, n[Len(n)])
                         /\ w.local[n].type \in {"f", "d"}}
         IN  {LiveChild(n[Len(n)], n,
                        IF IsFile(w, n) THEN w.local[n].bytes ELSE Null,
                        w.local[n].mtime,
                        IF IsFile(w, n) THEN "file" ELSE "dir") : n \in kids}

\* list_s3_children: `aws s3 ls uri/`, PRE lines and object lines
list_s3_children(w, s3_uri) ==
    LET uri  == RStrip(s3_uri)
        bkt  == IF Len(uri) >= 3 THEN uri[3] ELSE ""
        pre  == SubSeq(uri, 4, Len(uri))            \* components of the key prefix
        under == IF bkt # Bucket THEN {}
                 ELSE {k \in DOMAIN w.s3 : Len(k) > Len(pre) /\ SubSeq(k, 1, Len(pre)) = pre}
        names == {k[Len(pre) + 1] : k \in under}
        isObj(n) == (pre \o <<n>>) \in under
    IN  {LiveChild(n, uri \o <<n>>,
                   IF isObj(n) THEN w.s3[pre \o <<n>>].size ELSE Null,
                   IF isObj(n) THEN w.s3[pre \o <<n>>].mtime ELSE Null,
                   IF isObj(n) THEN "file" ELSE "dir") : n \in names}

\* get_scanned_paths: path -> its most recent catalog row; rows that tie on
\* time are all returned and the dict keeps whichever comes last
ScannedPathsChoices ==
    {f \in [ScanPaths -> ScanIdx] : \A p \in ScanPaths : f[p] \in MostRecent(p)}

\* the catalog paths below search_path whose first component below it is name
ScansUnder(base, name) ==
    {p \in ScanPaths : StartsWithDir(p, base) /\ p[Len(base) + 1] = name}

\* mutant of ScannedNames: only scans of the immediate children count
ScannedNamesDirect(base) ==
    {p[Len(base) + 1] : p \in {q \in ScanPaths : StartsWithDir(q, base) /\ Len(q) = Len(base) + 1}}

ScannedNames(base) == {p[Len(base) + 1] : p \in {q \in ScanPaths : StartsWithDir(q, base)}}

\* scan_data_by_name keeps, for each immediate name, the first catalog path
\* the dict iteration meets below it
FirstMetChoices(base) ==
    {g \in [ScannedNames(base) -> ScanPaths] :
        \A n \in ScannedNames(base) : g[n] \in ScansUnder(base, n)}

\* the merge of one live child with the catalog
MergeChild(c, base, sp, first) ==
    IF c.uri \in ScanPaths
    THEN [c EXCEPT !.size = scans[sp[c.uri]].size, !.mtime = 0,
                   !.n_children = scans[sp[c.uri]].n_children,
                   !.n_desc = scans[sp[c.uri]].n_desc,
                   !.scanned = "true", !.scan_time = scans[sp[c.uri]].time]
    ELSE IF c.path[1] \in ScannedNames(base)
    THEN [c EXCEPT !.size = scans[sp[first[c.path[1]]]].size, !.mtime = 0,
                   !.n_children = scans[sp[first[c.path[1]]]].n_children,
                   !.n_desc = scans[sp[first[c.path[1]]]].n_desc,
                   !.scanned = "partial", !.scan_time = scans[sp[first[c.path[1]]]].time]
    ELSE c

OrZero(v) == IF v = Null THEN 0 ELSE v

\* sort key (0 if scanned else 1, -(size or 0), path)
SynthLess(c1, c2) ==
    LET f1 == IF c1.scanned # "false" THEN 0 ELSE 1
        f2 == IF c2.scanned # "false" THEN 0 ELSE 1
    IN  \/ f1 < f2
        \/ f1 = f2 /\ OrZero(c1.size) > OrZero(c2.size)
        \/ f1 = f2 /\ OrZero(c1.size) = OrZero(c2.size) /\ StrLess(c1.path, c2.path)

\* children.sort(key=...): the merged children in the order SynthLess
RECURSIVE SortSynth(_)
SortSynth(S) ==
    IF S = {} THEN <<>>
    ELSE LET m == CHOOSE x \in S : \A y \in S \ {x} : SynthLess(x, y)
         IN  <<m>> \o SortSynth(S \ {m})

\* mutant of Synthesize: the virtual root sums over every child
SynthesizeSumAll(search_path, sp, first) ==
    LET base     == RStrip(search_path)
        live     == IF IsS3(search_path) THEN list_s3_children(fs, search_path)
                    ELSE list_fs_children(fs, search_path)
        children == SortSynth({MergeChild(c, base, sp, first) : c \in live})
        scanned_children == SelectSeq(children, LAMBDA c : c.scanned # "false")
        some     == scanned_children # <<>>
    IN  [ code |-> 200,
          root |-> [ path |-> Dot, uri |-> search_path,
                     size |-> IF some THEN SumInts([i \in 1..Len(children) |->
                                  OrZero(children[i].size)]) ELSE Null,
                     mtime |-> IF some THEN 0 ELSE Null,
                     kind |-> "dir", n_children |-> Len(children),
                     n_desc |-> IF some THEN SumInts([i \in 1..Len(children) |->
                                  OrZero(children[i].n_desc)]) ELSE Null,
                     parent |-> None, scanned |-> "false" ],
          children |-> children,
          rows |-> scanned_children,
          time |-> Null, scan_path |-> None,
          scan_status |-> IF some THEN "partial" ELSE "none" ]

\* get_scan, no scan found: the live listing merged with the catalog
Synthesize(search_path, sp, first) ==
    LET base     == RStrip(search_path)
        live     == IF IsS3(search_path) THEN list_s3_children(fs, search_path)
                    ELSE list_fs_children(fs, search_path)
        children == SortSynth({MergeChild(c, base, sp, first) : c \in live})
        scanned_children == SelectSeq(children, LAMBDA c : c.scanned # "false")
        some     == scanned_children # <<>>
    IN  [ code |-> 200,
          root |-> [ path |-> Dot, uri |-> search_path,
                     size |-> IF some THEN SumInts([i \in 1..Len(scanned_children) |->
                                  OrZero(scanned_children[i].size)]) ELSE Null,
                     mtime |-> IF some THEN 0 ELSE Null,
                     kind |-> "dir", n_children |-> Len(children),
                     n_desc |-> IF some THEN SumInts([i \in 1..Len(scanned_children) |->
                                  OrZero(scanned_children[i].n_desc)]) ELSE Null,
                     parent |-> None, scanned |-> "false" ],
          children |-> children,
          rows |-> scanned_children,
          time |-> Null, scan_path |-> None,
          scan_status |-> IF some THEN "partial" ELSE "none" ]

\* pd.read_parquet with the depth filters (Null = no bound)
ReadSlice(blob, min_depth, max_depth) ==
    SelectSeq(blobs[blob], LAMBDA r :
        /\ (max_depth = Null \/ r.depth <= max_depth)
        /\ (min_depth = Null \/ r.depth >= min_depth))

\* load_parquet_with_depth_filter: the cached frame if there is one, else
\* the rows of the blob within the depth bounds
LoadSlice(blob, min_depth, max_depth) ==
    IF <<blob, min_depth, max_depth>> \in DOMAIN pcache
    THEN pcache[<<blob, min_depth, max_depth>>]
    ELSE ReadSlice(blob, min_depth, max_depth)

\* viewed_path_depth: depth of uri below the scan root
ViewedDepth(scan_path, uri) ==
    LET relative_path == IF StartsWithDir(uri, RStrip(scan_path))
                         THEN StripDir(uri, RStrip(scan_path)) ELSE EmptyStr
    IN  IF relative_path # EmptyStr THEN CountSlash(relative_path) + 1 ELSE 0

\* make_relative
RelPath(r, uri) ==
    IF r.uri = uri THEN Dot
    ELSE IF StartsWithDir(r.uri, RStrip(uri)) THEN StripDir(r.uri, RStrip(uri))
    ELSE r.path

\* make_relative_parent
RelParent(r, viewed_dir_path) ==
    IF r.parent = viewed_dir_path THEN Dot
    ELSE IF StartsWithDir(r.parent, viewed_dir_path) THEN StripDir(r.parent, viewed_dir_path)
    ELSE r.parent

\* mutant of RowToDict: paths stay relative to the scan root
RowToDictScanRelative(r, exact, uri, viewed_dir_path) ==
    [ path   |-> r.path, parent |-> r.parent,
      uri |-> r.uri, size |-> r.size, mtime |-> r.mtime, kind |-> r.kind,
      n_children |-> r.n_children, n_desc |-> r.n_desc,
      depth  |-> PathDepth(IF exact THEN r.path ELSE RelPath(r, uri)) ]

\* row_to_dict, with the depth column get_scan recomputes
RowToDict(r, exact, uri, viewed_dir_path) ==
    [ path   |-> IF exact THEN r.path ELSE RelPath(r, uri),
      parent |-> IF exact THEN r.parent ELSE RelParent(r, viewed_dir_path),
      uri |-> r.uri, size |-> r.size, mtime |-> r.mtime, kind |-> r.kind,
      n_children |-> r.n_children, n_desc |-> r.n_desc,
      depth  |-> PathDepth(IF exact THEN r.path ELSE RelPath(r, uri)) ]

\* the orders in which sort_values('size', ascending=False).head(k) may keep
\* k of the rows of df: rows of equal size come in any order
RECURSIVE TopOrders(_, _, _)
TopOrders(df, S, k) ==
    IF k = 0 \/ S = {} THEN {<<>>}
    ELSE LET top == {i \in S : \A j \in S : df[j].size <= df[i].size}
         IN  UNION {{<<i>> \o rest : rest \in TopOrders(df, S \ {i}, k - 1)} : i \in top}

\* the inner while-loop of the row cap: walk up from parent, adding the rows
\* of children_df that are not included yet
RECURSIVE ParentChain(_, _, _)
ParentChain(children_df, parent, st) ==
    IF parent = None \/ parent = EmptyStr \/ parent = Dot \/ parent \in st.included THEN st
    ELSE LET parent_row == SelectSeq(children_df, LAMBDA r : r.path = parent)
         IN  IF parent_row = <<>> THEN st
             ELSE ParentChain(children_df, parent_row[1].parent,
                     [ included |-> st.included \cup {parent},
                       add |-> Append(st.add, parent_row[1]) ])

RECURSIVE ParentsToAdd(_, _, _)
ParentsToAdd(children_df, sorted_df, st) ==
    IF sorted_df = <<>> THEN st.add
    ELSE ParentsToAdd(children_df, Tail(sorted_df),
                      ParentChain(children_df, Head(sorted_df).parent, st))

\* mutant of CappedRows: the top rows alone, without the parent chain
CappedRowsTopOnly(children_df, order) ==
    [i \in 1..Len(order) |-> children_df[order[i]]]

\* the rows payload for one order of the size sort
CappedRows(children_df, order) ==
    LET sorted_df == [i \in 1..Len(order) |-> children_df[order[i]]]
    IN  sorted_df \o ParentsToAdd(children_df, sorted_df,
            [ included |-> {sorted_df[i].path : i \in 1..Len(sorted_df)}, add |-> <<>> ])

RowOrders(children_df, max_rows) ==
    IF max_rows > 0 /\ Len(children_df) > max_rows
    THEN TopOrders(children_df, 1..Len(children_df), max_rows)
    ELSE {<<>>}

\* insertion of a [key, val] pair behind the pairs of greater or equal key
RECURSIVE InsertDesc(_, _)
InsertDesc(x, t) ==
    IF t = <<>> THEN <<x>>
    ELSE IF Head(t).key < x.key THEN <<x>> \o t
    ELSE <<Head(t)>> \o InsertDesc(x, Tail(t))

\* list.sort / sorted with a descending key: stable
RECURSIVE SortDescPairs(_)
SortDescPairs(t) ==
    IF t = <<>> THEN <<>>
    ELSE InsertDesc(t[Len(t)], SortDescPairs(SubSeq(t, 1, Len(t) - 1)))

\* sorted(children, key=lambda x: -x.get('size', 0))
SortDesc(s) ==
    LET sorted == SortDescPairs([i \in 1..Len(s) |-> [key |-> s[i].size, val |-> s[i]]])
    IN  [i \in 1..Len(sorted) |-> sorted[i].val]

\* mutant of FresherRows: time >= scan_time
FresherRowsOrEqual(uri, scan_time) ==
    {i \in ScanIdx : /\ StartsWithDir(scans[i].path, RStrip(uri))
                     /\ Len(scans[i].path) = Len(RStrip(uri)) + 1
                     /\ scans[i].time >= scan_time}

\* the catalog rows the fresher-scans query selects from: scans of direct
\* children of uri with time > scan_time
FresherRows(uri, scan_time) ==
    {i \in ScanIdx : /\ StartsWithDir(scans[i].path, RStrip(uri))
                     /\ Len(scans[i].path) = Len(RStrip(uri)) + 1
                     /\ scans[i].time > scan_time}

\* fresher_stats: path -> a row of maximal time (the last of tied rows wins)
FresherChoices(uri, scan_time) ==
    LET F     == FresherRows(uri, scan_time)
        paths == {scans[i].path : i \in F}
    IN  {f \in [paths -> F] : \A p \in paths :
            /\ scans[f[p]].path = p
            /\ \A j \in F : scans[j].path = p => scans[j].time <= scans[f[p]].time}

PatchChild(c, fresher) ==
    IF c.uri \in DOMAIN fresher
    THEN [c EXCEPT !.size = scans[fresher[c.uri]].size, !.mtime = Null,
                   !.n_desc = scans[fresher[c.uri]].n_desc,
                   !.n_children = scans[fresher[c.uri]].n_children,
                   !.scan_time = scans[fresher[c.uri]].time, !.patched = TRUE]
    ELSE c

\* the rows within the requested depth below uri (children_df)
ChildrenDf(uri, s, depth) ==
    LET exact == s.path = uri
        df    == LoadSlice(s.blob, Null,
                           IF exact THEN depth ELSE ViewedDepth(s.path, uri) + depth)
        d(r)  == PathDepth(IF exact THEN r.path ELSE RelPath(r, uri))
    IN  SelectSeq(df, LAMBDA r :
            /\ exact \/ StartsWithDir(r.uri, RStrip(uri))
            /\ d(r) > 0 /\ d(r) <= depth)

\* get_scan answered from catalog row s: slice, children, rows, patching
RealResponse(uri, s, depth, order, fresher) ==
    LET exact == s.path = uri
        df    == LoadSlice(s.blob, Null,
                           IF exact THEN depth ELSE ViewedDepth(s.path, uri) + depth)
        root_row == SelectSeq(df, LAMBDA r : IF exact THEN r.path = Dot ELSE r.uri = uri)
        viewed_dir_path == IF root_row # <<>> THEN root_row[1].path ELSE EmptyStr
        d(r)  == PathDepth(IF exact THEN r.path ELSE RelPath(r, uri))
        children_df == ChildrenDf(uri, s, depth)
        direct_children_df == SelectSeq(df, LAMBDA r :
            IF exact THEN r.parent = Dot \/ (r.parent = EmptyStr /\ r.path # Dot)
            ELSE StartsWithDir(r.uri, RStrip(uri)) /\ d(r) = 1)
        dict(r)  == RowToDict(r, exact, uri, viewed_dir_path)
        child(r) == PatchChild(dict(r) @@ [ scanned |-> "true", scan_time |-> s.time,
                                            patched |-> FALSE ], fresher)
        rows0 == IF order = <<>> THEN children_df ELSE CappedRows(children_df, order)
    IN  IF root_row = <<>> THEN [code |-> 404, scan_path |-> s.path]   \* URI not found in scan
        ELSE [ code |-> 200,
               root |-> [ path |-> Dot, parent |-> None, uri |-> root_row[1].uri,
                          size |-> root_row[1].size, mtime |-> root_row[1].mtime,
                          kind |-> root_row[1].kind, n_children |-> root_row[1].n_children,
                          n_desc |-> root_row[1].n_desc, depth |-> root_row[1].depth ],
               children |-> SortDesc([i \in 1..Len(direct_children_df) |->
                                         child(direct_children_df[i])]),
               rows |-> [i \in 1..Len(rows0) |-> dict(rows0[i])],
               time |-> s.time, scan_path |-> s.path, scan_status |-> "full" ]

ById(id) == {i \in ScanIdx : scans[i].id = id}

\* GET /api/scan?uri=&scan_id=&depth=&max_rows=
GetScan(uri0, scan_id, depth, max_rows) ==
    LET uri         == NormUri(uri0)
        search_path == SearchPath(uri)
        req    == [ op |-> "get_scan", uri |-> uri0, scan_id |-> scan_id,
                    depth |-> depth, max_rows |-> max_rows ]
        search == AncestorSearch(search_path, SearchFuel)
        found  == IF scan_id # NoScanId THEN ById(scan_id)
                  ELSE IF search.hit = None THEN {} ELSE MostRecent(search.hit)
    IN  /\ UNCHANGED <<fs, scans, blobs>>
        /\ IF scan_id # NoScanId /\ \E i \in ById(scan_id) : ~Covers(scans[i].path, search_path)
           THEN resp' = req @@ [code |-> 400]
           ELSE IF scan_id = NoScanId /\ ~search.exited
           THEN resp' = req @@ [code |-> 0]          \* the loop is still running
           ELSE IF found = {}
           THEN \E sp \in ScannedPathsChoices : \E first \in FirstMetChoices(RStrip(search_path)) :
                    resp' = req @@ Synthesize(search_path, sp, first)
           ELSE \E i \in found :
                \E order \in RowOrders(ChildrenDf(uri, scans[i], depth), max_rows) :
                \E fresher \in FresherChoices(uri, scans[i].time) :
                    resp' = req @@ RealResponse(uri, scans[i], depth, order, fresher)

\* the orders in which a Python set of names may be iterated
RECURSIVE Enumerations(_)
Enumerations(S) ==
    IF S = {} THEN {<<>>}
    ELSE UNION {{<<x>> \o rest : rest \in Enumerations(S \ {x})} : x \in S}

Abs(n) == IF n < 0 THEN -n ELSE n

\* compare_scans.get_children: the rows taken as children of uri in scan s,
\* with rel_path; for a scan that covers uri
get_children(uri, s, depth_limit) ==
    LET exact        == s.path = uri
        rel_prefix   == IF exact THEN EmptyStr ELSE StripDir(uri, s.path)
        depth_offset == IF exact THEN 0 ELSE CountSlash(rel_prefix) + 1
        target_depth == depth_offset + depth_limit
        df           == LoadSlice(s.blob, target_depth, target_depth)
        children     == SelectSeq(df, LAMBDA r :
                            IF exact THEN r.parent = Dot ELSE r.parent = rel_prefix)
    IN  [i \in 1..Len(children) |->
            [ rel_path |-> IF exact THEN children[i].path
                           ELSE <<children[i].path[Len(children[i].path)]>>,
              row |-> children[i] ]]

\* compare_scans.get_subtree_stats
get_subtree_stats(uri, s) ==
    IF s.path = uri THEN [size |-> s.size, n_desc |-> s.n_desc]
    ELSE LET rel_path == StripDir(uri, s.path)
             target_depth == CountSlash(rel_path) + 1
             row == SelectSeq(LoadSlice(s.blob, target_depth, target_depth),
                              LAMBDA r : r.path = rel_path)
         IN  IF row # <<>> THEN [size |-> row[1].size, n_desc |-> row[1].n_desc]
             ELSE [size |-> Null, n_desc |-> Null]

\* the response of compare_scans for one iteration order of the name sets;
\* size_old, n_desc_delta and n_desc_old are absent (Null) on added and
\* removed rows
CompareResponse(uri, s1, s2, depth, added_seq, removed_seq, common_seq) ==
    LET children1 == get_children(uri, s1, depth)
        children2 == get_children(uri, s2, depth)
        first(ch, n) == SelectSeq(ch, LAMBDA c : c.rel_path = n)[1].row
        uri_prefix == RStrip(uri)
        base(row, n) == [ path |-> n, uri |-> uri_prefix \o n, size |-> row.size,
                          n_desc |-> row.n_desc, kind |-> row.kind ]
        addedRow(n) == base(first(children2, n), n) @@
             [ status |-> "added", size_delta |-> first(children2, n).size,
               size_old |-> Null, n_desc_delta |-> Null, n_desc_old |-> Null ]
        removedRow(n) == base(first(children1, n), n) @@
             [ status |-> "removed", size_delta |-> 0 - first(children1, n).size,
               size_old |-> Null, n_desc_delta |-> Null, n_desc_old |-> Null ]
        commonRow(n) ==
            LET row1 == first(children1, n)
                row2 == first(children2, n)
            IN  base(row2, n) @@
                [ status |-> IF row2.size - row1.size # 0 \/ row2.n_desc - row1.n_desc # 0
                             THEN "changed" ELSE "unchanged",
                  size_delta |-> row2.size - row1.size, size_old |-> row1.size,
                  n_desc_delta |-> row2.n_desc - row1.n_desc, n_desc_old |-> row1.n_desc ]
        unsorted == [i \in 1..Len(added_seq) |-> addedRow(added_seq[i])]
              \o [i \in 1..Len(removed_seq) |-> removedRow(removed_seq[i])]
              \o [i \in 1..Len(common_seq) |-> commonRow(common_seq[i])]
        sorted  == SortDescPairs([i \in 1..Len(unsorted) |->
                       [key |-> Abs(unsorted[i].size_delta), val |-> unsorted[i]]])
        results == [i \in 1..Len(sorted) |-> sorted[i].val]
    IN  [ code |-> 200,
          scan1 |-> [id |-> s1.id, time |-> s1.time, scan_path |-> s1.path] @@ get_subtree_stats(uri, s1),
          scan2 |-> [id |-> s2.id, time |-> s2.time, scan_path |-> s2.path] @@ get_subtree_stats(uri, s2),
          rows |-> results,
          summary |-> [ added |-> Len(added_seq), removed |-> Len(removed_seq),
                        changed |-> Len(SelectSeq(results, LAMBDA r : r.status = "changed")),
                        unchanged |-> Len(SelectSeq(results, LAMBDA r : r.status = "unchanged")),
                        total_delta |-> SumInts([i \in 1..Len(results) |-> results[i].size_delta]) ] ]

\* GET /api/compare?uri=&scan1=&scan2=&depth= for scans that cover uri
Compare(uri0, scan1_id, scan2_id, depth) ==
    LET uri == NormUri(uri0)
        req == [ op |-> "compare", uri |-> uri0, scan1_id |-> scan1_id,
                 scan2_id |-> scan2_id, depth |-> depth ]
    IN  /\ UNCHANGED <<fs, scans, blobs>>
        /\ IF ById(scan1_id) = {} \/ ById(scan2_id) = {}
           THEN resp' = req @@ [code |-> 404]
           ELSE \E i \in ById(scan1_id) : \E j \in ById(scan2_id) :
                /\ Covers(scans[i].path, uri) /\ Covers(scans[j].path, uri)
                /\ LET c1 == get_children(uri, scans[i], depth)
                       c2 == get_children(uri, scans[j], depth)
                       paths1 == {c1[k].rel_path : k \in 1..Len(c1)}
                       paths2 == {c2[k].rel_path : k \in 1..Len(c2)}
                   IN  \E added   \in Enumerations(paths2 \ paths1) :
                       \E removed \in Enumerations(paths1 \ paths2) :
                       \E common  \in Enumerations(paths1 \cap paths2) :
                           resp' = req @@ CompareResponse(uri, scans[i], scans[j], depth,
                                                          added, removed, common)

----------------------------------------------------------------------------
(* Scan history and scan list: server.py *)

\* the while-loop of get_scan_history: the ancestors of test_path
RECURSIVE HistoryAncestors(_)
HistoryAncestors(test_path) ==
    IF test_path = EmptyStr \/ test_path = Slash THEN <<>>
    ELSE LET parent == Dirname(test_path)
         IN  IF parent = test_path THEN <<>>
             ELSE (IF parent # EmptyStr THEN <<parent>> ELSE <<>>) \o HistoryAncestors(parent)

\* paths_to_check
PathsToCheck(uri) ==
    LET ps == <<uri>> \o HistoryAncestors(uri)
    IN  IF ~IsS3(uri) /\ \A k \in 1..Len(ps) : ps[k] # Slash THEN Append(ps, Slash) ELSE ps

\* the orders in which ORDER BY time DESC may return the catalog rows S
RECURSIVE TimeDescOrders(_)
TimeDescOrders(S) ==
    IF S = {} THEN {<<>>}
    ELSE LET top == {i \in S : \A j \in S : scans[j].time <= scans[i].time}
         IN  UNION {{<<i>> \o rest : rest \in TimeDescOrders(S \ {i})} : i \in top}

\* uri[len(scan_path):].lstrip('/')
HistoryRelPath(uri, scan_path) ==
    IF scan_path = Slash THEN Tail(uri) ELSE StripDir(uri, scan_path)

\* mutant of HistoryEntry: the catalog stats for ancestor scans too
HistoryEntryCatalogStats(uri, i) ==
    << [ id |-> scans[i].id, path |-> scans[i].path, time |-> scans[i].time,
         size |-> scans[i].size, n_children |-> scans[i].n_children,
         n_desc |-> scans[i].n_desc, scan_path |-> scans[i].path ] >>

\* the entry scan-history builds from catalog row i: <<>> when it is skipped
HistoryEntry(uri, i) ==
    LET s == scans[i]
        scan_dict == [ id |-> s.id, path |-> s.path, time |-> s.time, size |-> s.size,
                       n_children |-> s.n_children, n_desc |-> s.n_desc ]
        rel_path == HistoryRelPath(uri, s.path)
        df  == LoadSlice(s.blob, Null, CountSlash(rel_path) + 1)
        row == SelectSeq(df, LAMBDA r : r.path = rel_path)
    IN  IF s.path = uri THEN << scan_dict @@ [scan_path |-> s.path] >>
        ELSE IF row = <<>> THEN <<>>
        ELSE << [scan_dict EXCEPT !.size = row[1].size, !.n_children = row[1].n_children,
                                  !.n_desc = row[1].n_desc] @@ [scan_path |-> s.path] >>

\* GET /api/scans/history?uri=
GetScanHistory(uri0) ==
    LET uri   == NormUri(uri0)
        ps    == PathsToCheck(uri)
        found == {i \in ScanIdx : \E k \in 1..Len(ps) : scans[i].path = ps[k]}
    IN  /\ UNCHANGED <<fs, scans, blobs>>
        /\ \E order \in TimeDescOrders(found) :
              resp' = [ op |-> "history", uri |-> uri0, code |-> 200,
                        results |-> Flatten([k \in 1..Len(order) |-> HistoryEntry(uri, order[k])]) ]

\* the rows the list-scans query joins: those whose time is the MAX(time) of
\* their path
LatestRows == {i \in ScanIdx : \A j \in RowsOfPath(scans[i].path) : scans[j].time <= scans[i].time}

\* _fetch_scans_data, for one order of the rows of equal time
FetchScansData(order) ==
    [k \in 1..Len(order) |->
        [ id |-> scans[order[k]].id, path |-> scans[order[k]].path,
          time |-> scans[order[k]].time, blob |-> scans[order[k]].blob,
          size |-> scans[order[k]].size, n_children |-> scans[order[k]].n_children,
          n_desc |-> scans[order[k]].n_desc ]]

\* GET /api/scans, computed from the catalog
GetScans ==
    /\ UNCHANGED <<fs, scans, blobs>>
    /\ \E order \in TimeDescOrders(LatestRows) :
          resp' = [op |-> "scans", code |-> 200, results |-> FetchScansData(order)]

----------------------------------------------------------------------------
(* Delete: server.py *)

\* the nodes of the local tree at or beneath path
TreeAt(w, path) == {n \in DOMAIN w.local : n = path \/ StartsWithDir(n, path)}

\* deleted_size: st_size of a file, or of the files os.walk meets in a directory
DeletedSize(w, path) ==
    IF IsFile(w, path) THEN w.local[path].bytes
    ELSE SumOfSet({n \in TreeAt(w, path) : w.local[n].type = "f"}, LAMBDA n : w.local[n].bytes)

\* deleted_n_desc: 1 for a file; the entries os.walk meets, plus the directory
DeletedNDesc(w, path) ==
    IF IsFile(w, path) THEN 1 ELSE Cardinality(TreeAt(w, path) \ {path}) + 1

\* remove(path) / shutil.rmtree(path)
RemoveTree(w, path) ==
    [w EXCEPT !.local = [n \in DOMAIN w.local \ TreeAt(w, path) |-> w.local[n]]]

\* the ancestor_path of iteration i of the loop over path_parts
AncestorPath(rel_path, i) == IF i = 0 THEN Dot ELSE SubSeq(rel_path, 1, i)

\* the frame update_parent_scans_after_delete writes for a scan rooted at
\* scan_path; the frame itself when no row is marked (the blob is not written)
UpdatedFrame(df, scan_path, deleted_path) ==
    LET rel_path == IF scan_path = deleted_path THEN Dot
                    ELSE StripDir(deleted_path, scan_path)
        deleted_mask(r) == r.path = rel_path \/ StartsWithDir(r.path, rel_path)
        deleted_rows == SelectSeq(df, deleted_mask)
        at_rel == SelectSeq(deleted_rows, LAMBDA r : r.path = rel_path)
        total_deleted_size == SumInts([k \in 1..Len(at_rel) |-> at_rel[k].size])
        total_deleted_n_desc == Len(deleted_rows)
        kept == SelectSeq(df, LAMBDA r : ~deleted_mask(r))
        n == Len(rel_path)
        hits(r) == {i \in 0..n - 1 : r.path = AncestorPath(rel_path, i)}
        direct(r) == {i \in hits(r) : i = n - 1 \/ (i = 0 /\ n = 1)}
    IN  IF deleted_rows = <<>> THEN df
        ELSE [k \in 1..Len(kept) |->
                [kept[k] EXCEPT
                    !.size = @ - Cardinality(hits(kept[k])) * total_deleted_size,
                    !.n_desc = @ - Cardinality(hits(kept[k])) * total_deleted_n_desc,
                    !.n_children = @ - Cardinality(direct(kept[k]))]]

\* the catalog rows update_parent_scans_after_delete rewrites
ScansToUpdate(deleted_path) == {i \in ScanIdx : Covers(scans[i].path, deleted_path)}

\* update_parent_scans_after_delete; reading or writing the blobs of the
\* scans in failing raises, which is printed and skipped
UpdateParentScans(deleted_path, failing) ==
    [b \in DOMAIN blobs |->
        IF \E i \in ScansToUpdate(deleted_path) \ failing : scans[i].blob = b
        THEN LET i == CHOOSE j \in ScansToUpdate(deleted_path) \ failing : scans[j].blob = b
             IN  UpdatedFrame(blobs[b], scans[i].path, deleted_path)
        ELSE blobs[b]]

\* mutant of Cleared: the dict keeps its entries
KeptAsIs(d) == d

\* dict.clear()
Cleared(d) == <<>>

\* POST /api/delete {path}; rm_ok: the removal succeeds; failing: the scans
\* whose blob update raises
DeletePath(path, rm_ok, failing) ==
    LET req == [op |-> "delete", path |-> path]
    IN  IF path = EmptyStr \/ ~(Len(path) >= 2 /\ path[1] = "")
        THEN /\ resp' = req @@ [code |-> 400]
             /\ UNCHANGED <<fs, scans, blobs, cache, pcache>>
        ELSE IF ~IsFile(fs, path) /\ ~IsDir(fs, path)
        THEN /\ resp' = req @@ [code |-> 404]
             /\ UNCHANGED <<fs, scans, blobs, cache, pcache>>
        ELSE IF ~rm_ok
        THEN /\ resp' = req @@ [code |-> 500]
             /\ UNCHANGED <<fs, scans, blobs, cache, pcache>>
        ELSE /\ fs' = RemoveTree(fs, path)
             /\ blobs' = UpdateParentScans(path, failing)
             /\ cache' = Cleared(cache)
             /\ pcache' = Cleared(pcache)
             /\ resp' = req @@ [ code |-> 200, success |-> TRUE,
                                 deleted_size |-> DeletedSize(fs, path),
                                 deleted_n_desc |-> DeletedNDesc(fs, path),
                                 log |-> {scans[i].id : i \in failing} ]
             /\ UNCHANGED scans

\* the keys get_scan_history loads for uri
HistoryKeys(uri) ==
    LET ps == PathsToCheck(uri)
    IN  {<<scans[i].blob, Null, CountSlash(HistoryRelPath(uri, scans[i].path)) + 1>> :
            i \in {j \in ScanIdx : scans[j].path # uri
                                   /\ \E k \in 1..Len(ps) : scans[j].path = ps[k]}}

\* _parquet_cache after the loads of keys: a missing key gets the frame read
\* from the blob (the model's catalogs give fewer keys than the cache holds)
Loaded(keys) ==
    [k \in DOMAIN pcache \cup keys |->
        IF k \in DOMAIN pcache THEN pcache[k] ELSE ReadSlice(k[1], k[2], k[3])]

\* GET /api/scans through the response cache
GetScansCached ==
    IF "scans_list" \in DOMAIN cache
    THEN /\ resp' = [op |-> "scans", code |-> 200, results |-> cache["scans_list"]]
         /\ UNCHANGED <<fs, scans, blobs, cache>>
    ELSE /\ GetScans
         /\ cache' = [k \in DOMAIN cache \cup {"scans_list"} |->
                         IF k = "scans_list" THEN resp'.results ELSE cache[k]]

\* the catalog row Scan.create inserts for the frame df
CatalogRow(df, id, path, now, blob) ==
    LET root_rows == SelectSeq(df, LAMBDA r : r.parent = EmptyStr)
    IN  [ id |-> id, path |-> path, time |-> now, blob |-> blob,
          size |-> root_rows[1].size, n_children |-> root_rows[1].n_children,
          n_desc |-> root_rows[1].n_desc ]

----------------------------------------------------------------------------
(* Specification of the store and the query layer over a changing tree.    *)
(* Blobs are never rewritten here, so a cached read equals a read of the   *)
(* blob: the caches stay empty, as when every entry has outlived its TTL.  *)

MaxScans == 2      \* catalog rows created
MaxTime  == 2      \* distinct clock readings

\* /t holds a/, a/b/, a/b/c and b; bucket k holds a/b/c and b
Shape1 == [c \in Cand |-> CASE c \in {<<"a">>, <<"a", "b">>} -> "d"
                            [] c \in {<<"a", "b", "c">>, <<"b">>} -> "f"
                            [] OTHER -> "none"]

\* later: a/b/c and b are gone, the file - has appeared
Shape2 == [c \in Cand |-> CASE c \in {<<"a">>, <<"a", "b">>} -> "d"
                            [] c = <<"-">> -> "f"
                            [] OTHER -> "none"]

\* the tree changes once
\* at first directories occupy no blocks of their own (as on tmpfs)
Worlds == <<World(Shape1, 0, 1), World(Shape2, 1, 2)>>

Roots == {TRoot, TRoot \o <<"a">>, TRoot \o <<"a", "b">>,
          KRoot \o <<"a">>, KRoot \o <<"a", "b">>}

Uris == {Slash, TRoot, TRoot \o <<"">>, TRoot \o <<"a">>, TRoot \o <<"a", "b">>,
         KRoot, KRoot \o <<"a">>, KRoot \o <<"a", "b">>}

Depths == {0, 1, 2}

MaxRowsArgs == {0, 1}

\* only the order of clock readings matters: a new reading is any of those
\* already in the catalog or the next unused one
Readings ==
    {t \in 1..MaxTime : t <= Max({scans[i].time : i \in 1..Len(scans)} \cup {0}) + 1}

Init ==
    /\ fs = Worlds[1]
    /\ scans = <<>>
    /\ blobs = <<>>
    /\ resp = [op |-> "none"]
    /\ cache = <<>>
    /\ pcache = <<>>
    /\ CliIdle

Idle == resp.op = "none"

\* `disk-tree index path`; concurrent scans read the clock before they walk,
\* so rows are not inserted in time order
Scan ==
    /\ Idle
    /\ Len(scans) < MaxScans
    /\ \E path \in Roots : \E now \in Readings : ScanCreate(path, now)
    /\ UNCHANGED <<cache, pcache>>
    /\ UNCHANGED cli

\* the scanned trees change
FsChange ==
    /\ Idle
    /\ \E i \in 1..Len(Worlds) - 1 : fs = Worlds[i] /\ fs' = Worlds[i + 1]
    /\ UNCHANGED <<scans, blobs, resp, cache, pcache>>
    /\ UNCHANGED cli

Query ==
    /\ Idle
    /\ \E uri \in Uris : \E scan_id \in {NoScanId} \cup (1..MaxScans + 1) :
       \E depth \in Depths : \E max_rows \in MaxRowsArgs :
           GetScan(uri, scan_id, depth, max_rows)
    /\ UNCHANGED <<cache, pcache>>
    /\ UNCHANGED cli

CompareQuery ==
    /\ Idle
    /\ \E uri \in Uris : \E scan1_id \in 1..MaxScans + 1 : \E scan2_id \in 1..MaxScans + 1 :
       \E depth \in {1, 2} :
           Compare(uri, scan1_id, scan2_id, depth)
    /\ UNCHANGED <<cache, pcache>>
    /\ UNCHANGED cli

HistoryQuery ==
    /\ Idle
    /\ \E uri \in Uris : GetScanHistory(uri)
    /\ UNCHANGED <<cache, pcache>>
    /\ UNCHANGED cli

ListQuery ==
    /\ Idle
    /\ GetScans
    /\ UNCHANGED <<cache, pcache>>
    /\ UNCHANGED cli

\* the handler returns its response; the next request can be served
Return ==
    /\ ~Idle
    /\ resp' = [op |-> "none"]
    /\ UNCHANGED <<fs, scans, blobs, cache, pcache>>
    /\ UNCHANGED cli

Next == Scan \/ FsChange \/ Query \/ CompareQuery \/ HistoryQuery \/ ListQuery \/ Return

Spec == Init /\ [][Next]_vars

----------------------------------------------------------------------------
(* Garbage collection of old scans: sqla/model.py, Scan.gc, run as a       *)
(* command-line process that can be killed between any two steps.          *)

GcRunning == gc.pc \in {"query", "loop", "delete", "remove"}

\* mutant of GcMatches: time <= cutoff
GcMatchesUpToCutoff(path, cutoff) ==
    SelectSeq(scans, LAMBDA r : r.path = path /\ r.time <= cutoff)

\* query(Scan).filter_by(path=path).filter(Scan.time < cutoff).all()
GcMatches(path, cutoff) ==
    SelectSeq(scans, LAMBDA r : r.path = path /\ r.time < cutoff)

\* the files of the scans directory other than b
WithoutBlob(b) == [c \in DOMAIN blobs \ {b} |-> blobs[c]]

\* Scan.gc is entered
GcEnter(path, cutoff) ==
    gc' = [pc |-> "query", path |-> path, cutoff |-> cutoff, found |-> <<>>, todo |-> <<>>]

\* `disk-tree index -C path`, with or without --gc: Scan.create up to the
\* commit of the new row; with --gc, gc(path, now) is entered next.  The
\* commands run one after another, so each reads a later clock; one more
\* scan than MaxScans, so that a scan can end on a full catalog.
GcScan ==
    /\ ~GcRunning
    /\ NewId <= MaxScans + 1 /\ NewBlob <= MaxScans + 1
    /\ \E path \in {TRoot, TRoot \o <<"a">>} : \E g \in BOOLEAN :
          /\ ScanCreate(path, NewId)
          /\ IF g THEN GcEnter(path, NewId) ELSE gc' = [pc |-> "idle"]
    /\ UNCHANGED <<cache, pcache, progress, job, walk>>

\* Scan.gc(path, cutoff) called on its own (load_or_create, or by hand)
GcCall ==
    /\ ~GcRunning
    /\ \E path \in {TRoot, TRoot \o <<"a">>} : \E cutoff \in 1..MaxScans + 1 :
          GcEnter(path, cutoff)
    /\ UNCHANGED <<fs, scans, blobs, resp, cache, pcache, progress, job, walk>>

\* line 185: the rows to delete
GcQuery ==
    /\ gc.pc = "query"
    /\ gc' = [gc EXCEPT !.pc = "loop", !.found = GcMatches(gc.path, gc.cutoff),
                        !.todo = GcMatches(gc.path, gc.cutoff)]
    /\ UNCHANGED <<fs, scans, blobs, resp, cache, pcache, progress, job, walk>>

\* lines 187-189: the loop head and os.stat(blob), which raises when the
\* file is missing
GcStat ==
    /\ gc.pc = "loop"
    /\ gc' = [gc EXCEPT !.pc = IF gc.todo = <<>> THEN "done"
                                ELSE IF Head(gc.todo).blob \in DOMAIN blobs THEN "delete"
                                ELSE "error"]
    /\ UNCHANGED <<fs, scans, blobs, resp, cache, pcache, progress, job, walk>>

\* lines 191-192: delete the row and commit
GcDeleteRow ==
    /\ gc.pc = "delete"
    /\ scans' = SelectSeq(scans, LAMBDA r : r.id # Head(gc.todo).id)
    /\ gc' = [gc EXCEPT !.pc = "remove"]
    /\ UNCHANGED <<fs, blobs, resp, cache, pcache, progress, job, walk>>

\* line 193: remove(blob), which raises when the file is missing
GcRemoveBlob ==
    /\ gc.pc = "remove"
    /\ IF Head(gc.todo).blob \in DOMAIN blobs
       THEN /\ blobs' = WithoutBlob(Head(gc.todo).blob)
            /\ gc' = [gc EXCEPT !.pc = "loop", !.todo = Tail(gc.todo)]
       ELSE /\ gc' = [gc EXCEPT !.pc = "error"]
            /\ UNCHANGED blobs
    /\ UNCHANGED <<fs, scans, resp, cache, pcache, progress, job, walk>>

\* the process is killed
GcInterrupt ==
    /\ GcRunning
    /\ gc' = [gc EXCEPT !.pc = "killed"]
    /\ UNCHANGED <<fs, scans, blobs, resp, cache, pcache, progress, job, walk>>

\* a blob file that a catalog row names disappears from the scans directory
BlobLost ==
    /\ \E i \in 1..Len(scans) :
          /\ scans[i].blob \in DOMAIN blobs
          /\ blobs' = WithoutBlob(scans[i].blob)
    /\ UNCHANGED <<fs, scans, resp, cache, pcache, gc, progress, job, walk>>

NextGc ==
    GcScan \/ GcCall \/ GcQuery \/ GcStat \/ GcDeleteRow \/ GcRemoveBlob
      \/ GcInterrupt \/ BlobLost

SpecGc == Init /\ [][NextGc]_vars

----------------------------------------------------------------------------
(* Progress tracking of Scan.create: sqla/model.py.  Each tracked scan is   *)
(* a process; every call of ScanProgress is one committed transaction.     *)

MaxJobs == 2       \* tracked scans

\* the working directory of the scanning process
Cwd == <<"", "w">>

\* os.path.abspath: '' and relative paths are taken from the working directory
Abspath(p) ==
    IF p = EmptyStr THEN Cwd
    ELSE IF Len(p) >= 2 /\ p[1] = "" THEN NormUri(p)
    ELSE Cwd \o p

\* the path Scan.create works with (lines 110-112)
CreatePath(p) == RStrip(IF IsS3(p) THEN p ELSE Abspath(p))

\* the path ScanProgress.start stores (line 38)
StartPath(p) == IF ~IsS3(p) THEN RStrip(Abspath(p)) ELSE RStrip(p)

\* the arguments of Scan.create: /t, /t/, /, '' (the command line's form
\* of /), s3://k/a/
TrackedArgs == {TRoot, TRoot \o <<"">>, Slash, EmptyStr, KRoot \o <<"a", "">>}

\* db.session.query(cls).filter_by(path=path).delete()
WithoutProgress(path) == {r \in progress : r.path # path}

\* mutant of Finish: the row is marked, not deleted
FinishMarked(path, status) ==
    {IF r.path = path THEN [r EXCEPT !.status = status] ELSE r : r \in progress}

\* ScanProgress.finish(path, status)
Finish(path, status) == WithoutProgress(path)

\* Scan.create enters: ScanProgress.start(path)
TrackStart ==
    \E pid \in (1..MaxJobs) \ DOMAIN job : \E arg \in TrackedArgs :
        LET path == CreatePath(arg)
        IN  /\ progress' = WithoutProgress(StartPath(path))
                             \cup {[ path |-> StartPath(path), pid |-> pid,
                                     items_found |-> 0, status |-> "running" ]}
            /\ job' = [q \in DOMAIN job \cup {pid} |->
                          IF q = pid THEN [pc |-> "indexing", path |-> path, raised |-> FALSE]
                          ELSE job[q]]
            /\ UNCHANGED <<fs, scans, blobs, resp, cache, pcache, gc, walk>>

\* progress_callback: ScanProgress.update(path, ...)
TrackUpdate ==
    \E pid \in DOMAIN job :
        /\ job[pid].pc = "indexing"
        /\ progress' = {IF r.path = job[pid].path THEN [r EXCEPT !.items_found = 1] ELSE r :
                           r \in progress}
        /\ UNCHANGED <<fs, scans, blobs, resp, cache, pcache, gc, job, walk>>

\* find.index returns: the finally clause calls finish
IndexReturns ==
    \E pid \in DOMAIN job :
        /\ job[pid].pc = "indexing"
        /\ progress' = Finish(job[pid].path, "completed")
        /\ job' = [job EXCEPT ![pid].pc = "ended"]
        /\ UNCHANGED <<fs, scans, blobs, resp, cache, pcache, gc, walk>>

\* find.index raises: the except clause calls finish
IndexRaises ==
    \E pid \in DOMAIN job :
        /\ job[pid].pc = "indexing"
        /\ progress' = Finish(job[pid].path, "failed")
        /\ job' = [job EXCEPT ![pid].pc = "raised", ![pid].raised = TRUE]
        /\ UNCHANGED <<fs, scans, blobs, resp, cache, pcache, gc, walk>>

\* ... and the finally clause calls it again before the exception leaves
FinallyFinish ==
    \E pid \in DOMAIN job :
        /\ job[pid].pc = "raised"
        /\ progress' = Finish(job[pid].path, "completed")
        /\ job' = [job EXCEPT ![pid].pc = "ended"]
        /\ UNCHANGED <<fs, scans, blobs, resp, cache, pcache, gc, walk>>

NextProgress == TrackStart \/ TrackUpdate \/ IndexReturns \/ IndexRaises \/ FinallyFinish

SpecProgress == Init /\ [][NextProgress]_vars

----------------------------------------------------------------------------
(* The local walker and its child process: find/index.py, files_iter.  The *)
(* child writes records to stdout and error lines to stderr, in an order    *)
(* fixed by the tree; a write blocks while its pipe is full.               *)

PipeCap   == 2     \* writes a pipe holds before the writer blocks
MaxWrites == 4     \* writes of the child

RECURSIVE Scripts(_)
Scripts(n) ==
    IF n = 0 THEN {<<>>}
    ELSE Scripts(n - 1) \cup {<<w>> \o sc : w \in {"o", "e"}, sc \in {t \in Scripts(n - 1) : Len(t) = n - 1}}

\* after subprocess.Popen(cmd, stdout=PIPE, stderr=PIPE)
InitPipe ==
    /\ fs = Worlds[1]
    /\ scans = <<>>
    /\ blobs = <<>>
    /\ resp = [op |-> "none"]
    /\ cache = <<>>
    /\ pcache = <<>>
    /\ gc = [pc |-> "idle"]
    /\ progress = {}
    /\ job = <<>>
    /\ \E sc \in Scripts(MaxWrites) :
          walk = [pc |-> "read_stdout", child |-> "running", script |-> sc,
                  out |-> 0, err |-> 0, records |-> 0, err_lines |-> 0]

\* the child writes its next record or error line
ChildWrite ==
    /\ walk.child = "running" /\ walk.script # <<>>
    /\ IF Head(walk.script) = "o"
       THEN walk.out < PipeCap /\ walk' = [walk EXCEPT !.out = @ + 1, !.script = Tail(@)]
       ELSE walk.err < PipeCap /\ walk' = [walk EXCEPT !.err = @ + 1, !.script = Tail(@)]
    /\ UNCHANGED <<fs, scans, blobs, resp, cache, pcache, gc, progress, job>>

\* the child exits, closing its ends of both pipes
ChildExit ==
    /\ walk.child = "running" /\ walk.script = <<>>
    /\ walk' = [walk EXCEPT !.child = "exited"]
    /\ UNCHANGED <<fs, scans, blobs, resp, cache, pcache, gc, progress, job>>

\* read_records: proc.stdout.read(65536) takes what the pipe holds
ReadStdout ==
    /\ walk.pc = "read_stdout" /\ walk.out > 0
    /\ walk' = [walk EXCEPT !.out = 0, !.records = @ + walk.out]
    /\ UNCHANGED <<fs, scans, blobs, resp, cache, pcache, gc, progress, job>>

\* ... and returns b'' at end of file: the loop over the records ends
StdoutEof ==
    /\ walk.pc = "read_stdout" /\ walk.out = 0 /\ walk.child = "exited"
    /\ walk' = [walk EXCEPT !.pc = "read_stderr"]
    /\ UNCHANGED <<fs, scans, blobs, resp, cache, pcache, gc, progress, job>>

\* proc.stderr.read(), after the loop: takes what the pipe holds
ReadStderr ==
    /\ walk.pc = "read_stderr" /\ walk.err > 0
    /\ walk' = [walk EXCEPT !.err = 0, !.err_lines = @ + walk.err]
    /\ UNCHANGED <<fs, scans, blobs, resp, cache, pcache, gc, progress, job>>

\* ... and returns at end of file
StderrEof ==
    /\ walk.pc = "read_stderr" /\ walk.err = 0 /\ walk.child = "exited"
    /\ walk' = [walk EXCEPT !.pc = "wait"]
    /\ UNCHANGED <<fs, scans, blobs, resp, cache, pcache, gc, progress, job>>

\* proc.wait()
ProcWait ==
    /\ walk.pc = "wait" /\ walk.child = "exited"
    /\ walk' = [walk EXCEPT !.pc = "done"]
    /\ UNCHANGED <<fs, scans, blobs, resp, cache, pcache, gc, progress, job>>

NextPipe ==
    ChildWrite \/ ChildExit \/ ReadStdout \/ StdoutEof \/ ReadStderr \/ StderrEof \/ ProcWait

\* the child and the reader run whenever they can
SpecPipe == InitPipe /\ [][NextPipe]_vars /\ WF_vars(NextPipe)

----------------------------------------------------------------------------
(* Specification of deletes on a server with a catalog of scans of /t *)

\* the roots scanned, in catalog order, before the server started
DeleteCatalogs ==
    { <<TRoot>>,
      <<TRoot \o <<"a">>, TRoot>>,
      <<TRoot, TRoot \o <<"a">>, TRoot \o <<"a", "b">>>>,
      <<TRoot \o <<"a", "b">>, KRoot \o <<"a">>>> }

DeleteTargets ==
    { TRoot \o <<"a">>, TRoot \o <<"a", "b">>, TRoot \o <<"a", "b", "c">>,
      TRoot \o <<"b">>, XRoot, <<"t", "b">> }

HistoryUris == {TRoot, TRoot \o <<"a">>, TRoot \o <<"a", "b">>, TRoot \o <<"b">>}

InitDelete ==
    /\ fs = World(Shape1, 1, 1)
    /\ \E roots \in DeleteCatalogs :
          /\ blobs = [i \in 1..Len(roots) |-> index(fs, roots[i])]
          /\ scans = [i \in 1..Len(roots) |->
                         CatalogRow(index(fs, roots[i]), i, roots[i], i, i)]
    /\ resp = [op |-> "none"]
    /\ cache = <<>>
    /\ pcache = <<>>
    /\ CliIdle

DeleteRequest ==
    /\ Idle
    /\ \E path \in DeleteTargets : \E rm_ok \in BOOLEAN :
       \E failing \in SUBSET ScansToUpdate(path) :
           DeletePath(path, rm_ok, failing)
    /\ UNCHANGED cli

HistoryCached ==
    /\ Idle
    /\ \E uri \in HistoryUris :
          /\ GetScanHistory(uri)
          /\ pcache' = Loaded(HistoryKeys(NormUri(uri)))
    /\ UNCHANGED cache
    /\ UNCHANGED cli

ListCached ==
    /\ Idle
    /\ GetScansCached
    /\ UNCHANGED pcache
    /\ UNCHANGED cli

\* time passes: an entry outlives its TTL and is no longer served
CacheExpire ==
    /\ Idle
    /\ \/ \E k \in DOMAIN cache :
             /\ cache' = [j \in DOMAIN cache \ {k} |-> cache[j]]
             /\ UNCHANGED pcache
       \/ \E k \in DOMAIN pcache :
             /\ pcache' = [j \in DOMAIN pcache \ {k} |-> pcache[j]]
             /\ UNCHANGED cache
    /\ UNCHANGED <<fs, scans, blobs, resp>>
    /\ UNCHANGED cli

NextDelete == DeleteRequest \/ HistoryCached \/ ListCached \/ CacheExpire \/ Return

SpecDelete == InitDelete /\ [][NextDelete]_vars

----------------------------------------------------------------------------
(* Properties of get-scan responses *)

GotScan == resp.op = "get_scan"
ReqUri  == NormUri(resp.uri)
FullResponse == GotScan /\ resp.code = 200 /\ resp.scan_status = "full"
SynthResponse == GotScan /\ resp.code = 200 /\ resp.scan_status # "full"

\* the catalog rows a full response can have been answered from
UsedScans ==
    {i \in ScanIdx : /\ scans[i].path = resp.scan_path
                     /\ scans[i].time = resp.time
                     /\ resp.scan_id # NoScanId => scans[i].id = resp.scan_id}

\* where a table row of scan s lies
Location(s, r) == IF r.path = Dot THEN s.path ELSE s.path \o r.path

\* u is directly below v
DirectlyBelow(u, v) ==
    IF v = Slash THEN Len(u) = 2 /\ u[1] = "" /\ u[2] # ""
    ELSE Len(u) = Len(v) + 1 /\ SubSeq(u, 1, Len(v)) = v

Below(u, v) ==
    IF v = Slash THEN Len(u) >= 2 /\ u[1] = "" /\ u[2] # ""
    ELSE Len(u) > Len(v) /\ SubSeq(u, 1, Len(v)) = v

\* the root is the row for uri and the children are exactly the rows of scan
\* i directly below uri, each named by its last component
RootAndChildrenOf(i) ==
    LET t    == Rows(blobs[scans[i].blob])
        kids == {r \in t : DirectlyBelow(Location(scans[i], r), ReqUri)}
    IN  /\ resp.root.path = Dot
        /\ resp.root.uri = ReqUri
        /\ \E r \in t : /\ Location(scans[i], r) = ReqUri
                        /\ resp.root.size = r.size /\ resp.root.n_desc = r.n_desc
                        /\ resp.root.kind = r.kind
        /\ Len(resp.children) = Cardinality(kids)
        /\ \A r \in kids : \E k \in 1..Len(resp.children) :
              /\ resp.children[k].uri = Location(scans[i], r)
              /\ resp.children[k].path = <<r.path[Len(r.path)]>>
              /\ resp.children[k].kind = r.kind

\* C5 as stated: a response answered from a real scan has the row of uri as
\* root, with path ".", and as children exactly the direct children of uri
\* in that scan, each with its path relative to uri, whether the scan root
\* is uri or an ancestor of it.
C5_RootAndDirectChildren ==
    FullResponse => \E i \in UsedScans : RootAndChildrenOf(i)

\* C5 amended: the same for requests with depth >= 1; the blob is read up to
\* depth levels below uri, so with depth = 0 no child is returned.
C5_RootAndDirectChildrenWithinDepth ==
    /\ (FullResponse /\ resp.depth >= 1) => \E i \in UsedScans : RootAndChildrenOf(i)
    /\ (FullResponse /\ resp.depth = 0) => resp.children = <<>>

\* a response from an ancestor scan, with a directory among the children
C5_Witness ==
    /\ FullResponse /\ resp.depth >= 1 /\ resp.scan_path # ReqUri
    /\ \E k \in 1..Len(resp.children) : resp.children[k].kind = "dir"

\* the catalog paths that are search_path or an ancestor of it
CoveringPaths(search_path) == {p \in ScanPaths : Covers(p, search_path)}

\* the nearest of them
Nearest(search_path) ==
    CHOOSE p \in CoveringPaths(search_path) :
        \A q \in CoveringPaths(search_path) : Len(q) <= Len(p)

\* C6: without scan_id, get-scan answers from the most recent scan of uri
\* itself if there is one, otherwise from the most recent scan of the
\* nearest ancestor that has a scan, however new the scans of farther
\* ancestors are; and the upward search always ends.
C6_NearestAncestorMostRecent ==
    (GotScan /\ resp.scan_id = NoScanId) =>
        /\ resp.code # 0
        /\ CoveringPaths(SearchPath(ReqUri)) = {} => SynthResponse
        /\ CoveringPaths(SearchPath(ReqUri)) # {} =>
              /\ resp.code \in {200, 404}
              /\ resp.scan_path = Nearest(SearchPath(ReqUri))
              /\ resp.code = 200 =>
                    /\ resp.scan_status = "full"
                    /\ resp.time = Max({scans[i].time : i \in RowsOfPath(resp.scan_path)})

\* answered from an older scan of a nearer ancestor while a farther ancestor
\* has a newer scan
C6_Witness ==
    /\ FullResponse /\ resp.scan_id = NoScanId /\ resp.scan_path # ReqUri
    /\ \E i \in ScanIdx : /\ Covers(scans[i].path, ReqUri)
                          /\ scans[i].path # resp.scan_path
                          /\ scans[i].time > resp.time

\* C7: in a response from a real scan a direct child is patched, with the
\* denormalised stats of the most recent scan of exactly its URI, iff that
\* scan is strictly newer than the scan viewed; otherwise the child keeps
\* the viewed scan's row, whatever scans exist of its descendants.
C7_PatchedIffStrictlyNewerChildScan ==
    FullResponse => \A k \in 1..Len(resp.children) :
        LET c     == resp.children[k]
            newer == {i \in RowsOfPath(c.uri) : scans[i].time > resp.time}
        IN  /\ c.patched <=> newer # {}
            /\ c.patched => \E i \in RowsOfPath(c.uri) :
                  /\ scans[i].time = Max({scans[j].time : j \in RowsOfPath(c.uri)})
                  /\ c.size = scans[i].size /\ c.n_desc = scans[i].n_desc
                  /\ c.n_children = scans[i].n_children /\ c.scan_time = scans[i].time
            /\ ~c.patched => \E i \in UsedScans : \E r \in Rows(blobs[scans[i].blob]) :
                  /\ r.uri = c.uri /\ c.size = r.size /\ c.n_desc = r.n_desc
                  /\ c.n_children = r.n_children /\ c.scan_time = resp.time

\* a child patched from a newer scan whose stats differ from the viewed row
C7_Witness ==
    /\ FullResponse
    /\ \E k \in 1..Len(resp.children) :
          /\ resp.children[k].patched
          /\ \E i \in UsedScans : \E r \in Rows(blobs[scans[i].blob]) :
                r.uri = resp.children[k].uri /\ r.size # resp.children[k].size

----------------------------------------------------------------------------
(* Properties of the rows payload *)

\* the rows of scan i that lie below uri, at most resp.depth levels down
WithinDepth(i) ==
    {r \in Rows(blobs[scans[i].blob]) :
        /\ Below(Location(scans[i], r), ReqUri)
        /\ Len(Location(scans[i], r)) - Len(ReqUri) <= resp.depth}

ReturnedUris == {resp.rows[k].uri : k \in 1..Len(resp.rows)}

\* every returned row hangs off the viewed root or off a returned row
NoDanglingParent ==
    \A k \in 1..Len(resp.rows) :
        LET row == resp.rows[k]
        IN  IF DirectlyBelow(row.uri, ReqUri) THEN row.parent \in {Dot, EmptyStr}
            ELSE \E j \in 1..Len(resp.rows) :
                    /\ resp.rows[j].path = row.parent
                    /\ DirectlyBelow(row.uri, resp.rows[j].uri)

\* the payload is K and the ancestors of its rows below the viewed root
KeptWithAncestors(K) ==
    ReturnedUris = {r.uri : r \in K}
                     \cup {u \in UNION {{SubSeq(r.uri, 1, n) : n \in 1..Len(r.uri)} : r \in K} :
                             Below(u, ReqUri) /\ \E r \in K : Below(r.uri, u)}

\* C11: when more than max_rows > 0 rows lie within the requested depth,
\* the rows payload holds max_rows rows of largest size and every ancestor,
\* below the viewed root, of a kept row, so that each returned row's parent
\* is the viewed root or a returned row, for exact-root and ancestor scans
\* alike; with max_rows = 0 or no more than max_rows rows within the depth,
\* all of them are returned.
C11_RowCapKeepsLargestAndAncestors ==
    FullResponse => \E i \in UsedScans :
        LET all == WithinDepth(i)
        IN  /\ Len(resp.rows) = Cardinality(ReturnedUris)
            /\ NoDanglingParent
            /\ (resp.max_rows = 0 \/ Cardinality(all) <= resp.max_rows)
                  => ReturnedUris = {r.uri : r \in all}
            /\ (resp.max_rows > 0 /\ Cardinality(all) > resp.max_rows)
                  => \E K \in SUBSET all :
                        /\ Cardinality(K) = resp.max_rows
                        /\ \A r \in K : \A q \in all \ K : q.size <= r.size
                        /\ KeptWithAncestors(K)

\* a capped payload from an ancestor scan to which a parent row was added
C11_Witness ==
    /\ FullResponse /\ resp.scan_path # ReqUri
    /\ resp.max_rows > 0 /\ Len(resp.rows) > resp.max_rows
    /\ \E k \in 1..Len(resp.rows) : resp.rows[k].parent # Dot

----------------------------------------------------------------------------
(* Properties of synthesized responses *)

\* the URIs of the entries that now exist directly below uri
LiveUris(uri) ==
    IF IsS3(uri)
    THEN LET pre == SubSeq(uri, 4, Len(uri))
         IN  {uri \o <<k[Len(pre) + 1]>> :
                 k \in {q \in DOMAIN fs.s3 : /\ uri[3] = Bucket /\ Len(q) > Len(pre)
                                             /\ SubSeq(q, 1, Len(pre)) = pre}}
    ELSE {n \in DOMAIN fs.local : DirectlyBelow(n, uri)}

ScanAtOrBelow(u) == \E p \in ScanPaths : p = u \/ Below(p, u)

SynthStatus ==
    /\ SynthResponse
    /\ resp.scan_status \in {"partial", "none"}
    /\ resp.scan_status = "partial" <=> \E u \in LiveUris(SearchPath(ReqUri)) : ScanAtOrBelow(u)

\* C9 as stated: when no scan root is uri or an ancestor of uri, get-scan
\* returns no error but a synthesized response, with scan_status partial
\* iff a live child of uri has a scan at or below it and none otherwise.
C9_SynthesisInsteadOfError ==
    (GotScan /\ CoveringPaths(SearchPath(ReqUri)) = {}) => SynthStatus

\* C9 amended: that holds when no scan_id is given or the scan_id names no
\* catalog row; a scan_id that names a scan not covering uri is rejected
\* with status 400.
C9_SynthesisUnlessScanIdRejected ==
    (GotScan /\ CoveringPaths(SearchPath(ReqUri)) = {}) =>
        IF resp.scan_id = NoScanId \/ ById(resp.scan_id) = {}
        THEN SynthStatus ELSE resp.code = 400

\* a synthesized partial response for a URI no scan covers
C9_Witness ==
    /\ GotScan /\ CoveringPaths(SearchPath(ReqUri)) = {}
    /\ resp.code = 200 /\ resp.scan_status = "partial"

Marked == SelectSeq(resp.children, LAMBDA c : c.scanned # "false")

SynthFlags ==
    /\ {resp.children[k].uri : k \in 1..Len(resp.children)} = LiveUris(SearchPath(ReqUri))
    /\ Len(resp.children) = Cardinality(LiveUris(SearchPath(ReqUri)))
    /\ \A k \in 1..Len(resp.children) :
          LET c == resp.children[k]
          IN  /\ c.scanned \in {"true", "partial", "false"}
              /\ c.scanned = "true" <=> c.uri \in ScanPaths
              /\ c.scanned = "partial" <=>
                    (c.uri \notin ScanPaths /\ \E p \in ScanPaths : Below(p, c.uri))

\* C10 as stated: in synthesis mode a live child is scanned=true iff a scan
\* is rooted exactly at it, partial iff only descendants of it are scanned,
\* false otherwise; the root's size and n_desc are the sums over the
\* children marked true or partial.
C10_SynthFlagsAndRootSums ==
    SynthResponse =>
        /\ SynthFlags
        /\ resp.root.size = SumInts([k \in 1..Len(Marked) |-> Marked[k].size])
        /\ resp.root.n_desc = SumInts([k \in 1..Len(Marked) |-> Marked[k].n_desc])

\* C10 amended: the sums are reported when at least one child is marked
\* true or partial; when none is, the root's size and n_desc are null.
C10_SynthFlagsAndRootSumsOrNull ==
    SynthResponse =>
        /\ SynthFlags
        /\ Marked # <<>> =>
              /\ resp.root.size = SumInts([k \in 1..Len(Marked) |-> Marked[k].size])
              /\ resp.root.n_desc = SumInts([k \in 1..Len(Marked) |-> Marked[k].n_desc])
        /\ Marked = <<>> => resp.root.size = Null /\ resp.root.n_desc = Null

\* a partial child next to an unscanned file that has a size of its own
C10_Witness ==
    /\ SynthResponse
    /\ \E k \in 1..Len(resp.children) : resp.children[k].scanned = "partial"
    /\ \E k \in 1..Len(resp.children) :
          resp.children[k].scanned = "false" /\ resp.children[k].size > 0

----------------------------------------------------------------------------
(* Properties of compare responses *)

Compared == resp.op = "compare" /\ resp.code = 200

\* the names of the entries directly below uri in the scan with this id
NamesIn(id, uri) ==
    UNION {{r.path[Len(r.path)] : r \in {q \in Rows(blobs[scans[i].blob]) :
                                            DirectlyBelow(Location(scans[i], q), uri)}}
           : i \in ById(id)}

\* the row of the entry called n directly below uri in the scan with this id
EntryIn(id, uri, n) ==
    CHOOSE r \in UNION {Rows(blobs[scans[i].blob]) : i \in ById(id)} :
        \E i \in ById(id) : Location(scans[i], r) = uri \o <<n>>

CountStatus(st) == Len(SelectSeq(resp.rows, LAMBDA r : r.status = st))

\* C8: compare reports the children of uri only in scan2 as added, those
\* only in scan1 as removed, the common ones as changed iff size or n_desc
\* differ and unchanged otherwise; every row carries the URI uri/name; the
\* summary counts the rows of each status and total_delta sums size_delta.
C8_CompareClassifiesChildren ==
    (Compared /\ resp.depth = 1) =>
        LET uri    == NormUri(resp.uri)
            names1 == NamesIn(resp.scan1_id, uri)
            names2 == NamesIn(resp.scan2_id, uri)
            status(n) ==
                IF n \notin names1 THEN "added"
                ELSE IF n \notin names2 THEN "removed"
                ELSE IF \/ EntryIn(resp.scan1_id, uri, n).size # EntryIn(resp.scan2_id, uri, n).size
                        \/ EntryIn(resp.scan1_id, uri, n).n_desc # EntryIn(resp.scan2_id, uri, n).n_desc
                     THEN "changed" ELSE "unchanged"
        IN  /\ Len(resp.rows) = Cardinality(names1 \cup names2)
            /\ \A n \in names1 \cup names2 : \E k \in 1..Len(resp.rows) :
                  /\ resp.rows[k].path = <<n>>
                  /\ resp.rows[k].uri = uri \o <<n>>
                  /\ resp.rows[k].status = status(n)
            /\ resp.summary.added = CountStatus("added")
            /\ resp.summary.removed = CountStatus("removed")
            /\ resp.summary.changed = CountStatus("changed")
            /\ resp.summary.unchanged = CountStatus("unchanged")
            /\ resp.summary.total_delta =
                  SumInts([k \in 1..Len(resp.rows) |-> resp.rows[k].size_delta])
            /\ resp.scan1_id = resp.scan2_id =>
                  /\ resp.summary.added = 0 /\ resp.summary.removed = 0
                  /\ resp.summary.changed = 0 /\ resp.summary.total_delta = 0

----------------------------------------------------------------------------
(* Properties of scan history *)

GotHistory == resp.op = "history"

ResultIds == {resp.results[k].id : k \in 1..Len(resp.results)}

\* the catalog rows rooted at uri or at an ancestor of it
CoveringScans == {i \in ScanIdx : Covers(scans[i].path, SearchPath(ReqUri))}

\* the table row of scan i that lies at uri
RowsAt(i, u) == {r \in Rows(blobs[scans[i].blob]) : Location(scans[i], r) = u}

\* each result belongs to a scan from S and carries that scan's root as path
\* and scan_path, the catalog stats when the scan is rooted at uri, and the
\* stats of the blob row for uri when it is rooted above
HistoryOf(S) ==
    /\ Len(resp.results) = Cardinality(ResultIds)
    /\ ResultIds = {scans[i].id : i \in S}
    /\ \A k \in 1..Len(resp.results) : \E i \in S :
          LET e == resp.results[k]
          IN  /\ e.id = scans[i].id /\ e.time = scans[i].time
              /\ e.path = scans[i].path /\ e.scan_path = scans[i].path
              /\ scans[i].path = ReqUri =>
                    /\ e.size = scans[i].size /\ e.n_desc = scans[i].n_desc
                    /\ e.n_children = scans[i].n_children
              /\ scans[i].path # ReqUri => \E r \in RowsAt(i, ReqUri) :
                    /\ e.size = r.size /\ e.n_desc = r.n_desc
                    /\ e.n_children = r.n_children

\* C12 as stated: scan-history returns every scan whose root is uri or an
\* ancestor of uri and no other; exact-root results carry the catalog stats,
\* ancestor results the stats of the blob row for uri; scan_path is the root
\* of the scan the result came from.
C12_HistoryOfAllCoveringScans ==
    GotHistory => HistoryOf(CoveringScans)

\* C12 amended: the same, for the scans rooted at uri and the ancestor scans
\* whose blob holds a row for uri; an ancestor scan without such a row is
\* left out.
C12_HistoryOfCoveringScansHoldingUri ==
    GotHistory => HistoryOf({i \in CoveringScans :
                                scans[i].path = ReqUri \/ RowsAt(i, ReqUri) # {}})

\* a history with an exact-root result and an ancestor result whose stats differ
C12_Witness ==
    /\ GotHistory
    /\ \E k, j \in 1..Len(resp.results) :
          /\ resp.results[k].scan_path = ReqUri
          /\ resp.results[j].scan_path # ReqUri
          /\ resp.results[j].size # resp.results[k].size

----------------------------------------------------------------------------
(* Properties of the scan list *)

GotScans == resp.op = "scans"

\* C13: list-scans, computed from the catalog, returns exactly one entry per
\* distinct scan root path, and that entry is the scan with the greatest
\* time for that path, for any number of scans per path.
C13_OneEntryPerPathMostRecent ==
    GotScans =>
        /\ {resp.results[k].path : k \in 1..Len(resp.results)} = ScanPaths
        /\ Len(resp.results) = Cardinality(ScanPaths)
        /\ \A k \in 1..Len(resp.results) : \E i \in RowsOfPath(resp.results[k].path) :
              /\ resp.results[k].id = scans[i].id
              /\ resp.results[k].time = Max({scans[j].time : j \in RowsOfPath(scans[i].path)})

----------------------------------------------------------------------------
(* Properties of delete *)

\* the step is a delete of path p that returned success and logged no
\* failed blob update
DeletedCleanly(p) ==
    /\ resp'.op = "delete" /\ resp'.code = 200
    /\ resp'.path = p /\ resp'.log = {}

\* the table of scan i after the row for p and the rows beneath it are
\* removed, every directory row above p has lost the size of p's row and as
\* many descendants as rows were removed, and the row directly above p has
\* lost one child
WithoutSubtree(i, p) ==
    LET t       == blobs[scans[i].blob]
        loc(r)  == Location(scans[i], r)
        gone(r) == loc(r) = p \/ Below(loc(r), p)
        size_p  == (CHOOSE r \in RowsAt(i, p) : TRUE).size
        n_gone  == Cardinality({k \in 1..Len(t) : gone(t[k])})
        kept    == SelectSeq(t, LAMBDA r : ~gone(r))
    IN  [k \in 1..Len(kept) |->
            IF Below(p, loc(kept[k]))
            THEN [kept[k] EXCEPT !.size = @ - size_p, !.n_desc = @ - n_gone,
                                 !.n_children = IF DirectlyBelow(p, loc(kept[k]))
                                                THEN @ - 1 ELSE @]
            ELSE kept[k]]

\* the effect of a clean delete of p on the blob of scan i; for a scan
\* rooted at p itself either reading of "ancestor" is accepted
DeleteEffectOn(i, p) ==
    LET b == scans[i].blob
    IN  IF StartsWithDir(p, scans[i].path) /\ RowsAt(i, p) # {}
        THEN blobs'[b] = WithoutSubtree(i, p)
        ELSE IF scans[i].path = p
        THEN blobs'[b] = blobs[b] \/ blobs'[b] = <<>>
        ELSE blobs'[b] = blobs[b]

\* C15: after a successful delete of path, every scan rooted at an ancestor
\* of path whose blob contains path has lost the row for path and all rows
\* beneath it, its rows for the proper ancestors of path have size reduced
\* by the deleted entry's size and n_desc by the number of removed rows, the
\* direct parent has n_children reduced by 1, all other rows are unchanged,
\* and the blobs of all other scans are unchanged.
C15_DeleteRewritesAncestorBlobs ==
    [][\A p \in DeleteTargets : DeletedCleanly(p) =>
            \A i \in ScanIdx : DeleteEffectOn(i, p)]_vars

\* the same for the scans not rooted at path itself
C15_ProperAncestorEffect ==
    [][\A p \in DeleteTargets : DeletedCleanly(p) =>
            \A i \in ScanIdx : scans[i].path # p => DeleteEffectOn(i, p)]_vars

DeleteSucceeded == resp.op = "delete" /\ resp.code = 200

----------------------------------------------------------------------------
(* Properties of garbage collection *)

\* the catalog rows gc(path, cutoff) is to delete
Old(path, cutoff) == {r \in Rows(scans) : r.path = path /\ r.time < cutoff}

\* a step of the running gc call
GcStep == GcRunning /\ gc'.pc # gc.pc

\* the step leaves the rows of other paths, the rows not older than the
\* cutoff, and the blobs of both, as they are
GcFrame ==
    \A r \in Rows(scans) \ Old(gc.path, gc.cutoff) :
        /\ r \in Rows(scans')
        /\ r.blob \in DOMAIN blobs => (r.blob \in DOMAIN blobs' /\ blobs'[r.blob] = blobs[r.blob])

\* gc has returned: the rows it found are deleted with their blob files, and
\* no row of the path older than the cutoff is left
GcDone ==
    gc.pc = "done" =>
        /\ Old(gc.path, gc.cutoff) = {}
        /\ \A k \in 1..Len(gc.found) :
              /\ gc.found[k] \notin Rows(scans)
              /\ gc.found[k].blob \notin DOMAIN blobs
              /\ gc.found[k].path = gc.path /\ gc.found[k].time < gc.cutoff

\* C17: gc(path, cutoff) deletes exactly the catalog rows of path whose time
\* is strictly earlier than cutoff and removes exactly their blob files;
\* rows of other paths and rows with time >= cutoff, such as the scan just
\* created when gc runs at scan completion, and their blobs are unchanged.
C17_GcDeletesExactlyOlderScansOfPath ==
    [][GcStep => (GcFrame /\ GcDone')]_vars

\* gc has returned at the end of a scan: an older scan of the path was
\* deleted, the scan just created and a scan of another path are kept
C17_Witness ==
    /\ gc.pc = "done" /\ Len(gc.found) >= 1
    /\ \E r \in Rows(scans) : r.path = gc.path /\ r.time = gc.cutoff /\ r.blob \in DOMAIN blobs
    /\ \E r \in Rows(scans) : r.path # gc.path

\* C18: gc can be run again after a complete run, after an interrupted run
\* and when a blob file to remove is already missing: it completes without
\* error and leaves no catalog row of the path older than the cutoff, so
\* that a second run after a complete run changes nothing.
C18_GcIdempotentAndInterruptible ==
    /\ gc.pc # "error"
    /\ gc.pc = "done" => Old(gc.path, gc.cutoff) = {}

----------------------------------------------------------------------------
(* Properties of progress tracking *)

\* C19: when a tracked scan has ended, whether find.index returned or
\* raised, the progress table holds no row of that scan, so that a poll
\* after the end never shows it as running; and at every moment the table
\* holds at most one row per path.
C19_NoProgressRowAfterScanEnds ==
    /\ \A pid \in DOMAIN job : job[pid].pc = "ended" =>
          \A r \in progress : r.pid # pid
    /\ \A r1 \in progress : \A r2 \in progress : r1.path = r2.path => r1 = r2

\* the same for the scans of paths other than '/'
C19_ExceptScansOfRoot ==
    /\ \A pid \in DOMAIN job : (job[pid].pc = "ended" /\ job[pid].path # EmptyStr) =>
          \A r \in progress : r.pid # pid
    /\ \A r1 \in progress : \A r2 \in progress : r1.path = r2.path => r1 = r2

----------------------------------------------------------------------------
(* Properties of the walker *)

\* C20: a local scan terminates for every output of the child: however the
\* child interleaves its stderr lines with its stdout records, it never
\* blocks forever on a full pipe and files_iter reaches proc.wait() and
\* returns.
C20_WalkTerminates == <>(walk.pc = "done")

----------------------------------------------------------------------------
(* The error collector of the local walker: find/index.py, ErrorCollector  *)
(* and the loop of files_iter over the lines of the child's stderr.        *)

MaxLines == 4      \* lines of stderr handled

\* values of the field max_paths (100 unless the caller sets it)
MaxPathsArgs == {1, 2, 3}

\* the paths gfind reports
DeniedPaths == {TRoot \o <<"a">>, TRoot \o <<"b">>, TRoot \o <<"a", "b">>}

\* a line of stderr: `gfind: '<path>': Permission denied`, or anything else
ErrLines == [kind : {"denied"}, path : DeniedPaths] \cup {[kind |-> "other"]}

\* ErrorCollector(max_paths=m), before the first line
InitErrors ==
    /\ fs = Worlds[1]
    /\ scans = <<>>
    /\ blobs = <<>>
    /\ resp = [op |-> "none"]
    /\ cache = <<>>
    /\ pcache = <<>>
    /\ gc = [pc |-> "idle"]
    /\ progress = {}
    /\ job = <<>>
    /\ \E m \in MaxPathsArgs :
          walk = [pc |-> "stderr", max_paths |-> m, count |-> 0, paths |-> <<>>,
                  lines |-> <<>>, printed |-> 0]

\* ErrorCollector.add(path)
Add(errors, path) ==
    [errors EXCEPT !.count = @ + 1,
                   !.paths = IF Len(@) < errors.max_paths THEN Append(@, path) ELSE @]

\* one line of stderr: a permission error is collected, any other is printed
StderrLine ==
    /\ walk.pc = "stderr" /\ Len(walk.lines) < MaxLines
    /\ \E line \in ErrLines :
          LET seen == [walk EXCEPT !.lines = Append(@, line)]
          IN  walk' = IF line.kind = "denied" THEN Add(seen, line.path)
                      ELSE [seen EXCEPT !.printed = @ + 1]
    /\ UNCHANGED <<fs, scans, blobs, resp, cache, pcache, gc, progress, job>>

NextErrors == StderrLine

SpecErrors == InitErrors /\ [][NextErrors]_vars

(* Properties of the error collector *)

\* the paths of the permission errors among the lines, in order of arrival
RECURSIVE Reported(_)
Reported(lines) ==
    IF lines = <<>> THEN <<>>
    ELSE LET rest == Reported(SubSeq(lines, 1, Len(lines) - 1))
             last == lines[Len(lines)]
         IN  IF last.kind = "denied" THEN Append(rest, last.path) ELSE rest

\* a sequence without its repeated elements, first occurrences kept
RECURSIVE Unique(_)
Unique(sq) ==
    IF sq = <<>> THEN <<>>
    ELSE LET rest == Unique(SubSeq(sq, 1, Len(sq) - 1))
             last == sq[Len(sq)]
         IN  IF \E i \in 1..Len(rest) : rest[i] = last THEN rest ELSE Append(rest, last)

FirstN(sq, n) == SubSeq(sq, 1, IF Len(sq) < n THEN Len(sq) ELSE n)

\* C21: after any sequence of add calls, count is the number of permission
\* errors reported, and paths holds at most max_paths entries: the first
\* max_paths unique offending paths in order of arrival, none of them twice.
C21_CountFullPathsFirstUnique ==
    /\ walk.count = Len(Reported(walk.lines))
    /\ Len(walk.paths) <= walk.max_paths
    /\ walk.paths = FirstN(Unique(Reported(walk.lines)), walk.max_paths)

\* what the collector does keep: the first max_paths reports, repeats included
C21_PathsFirstReports ==
    /\ walk.count = Len(Reported(walk.lines))
    /\ Len(walk.paths) <= walk.max_paths
    /\ walk.paths = FirstN(Reported(walk.lines), walk.max_paths)

----------------------------------------------------------------------------
(* The object-store walker, line by line: find/index.py, s3_files_iter     *)

\* the keys bucket k may hold; a key may be a prefix of another ('a' and
\* 'a/b'), and 'a/' is the placeholder object of a folder
S3Keys == Cand \cup {<<"a", "">>}

\* the listings that are walked
S3Roots == {KRoot, KRoot \o <<"a">>, KRoot \o <<"a", "b">>}

S3Key0(path) == IF Len(path) > 3 THEN SubSeq(path, 4, Len(path)) ELSE EmptyStr

\* relpath of a key under key0 ('' when the key is key0 itself)
S3RelPath(key, key0) ==
    IF key0 # EmptyStr THEN (IF key # key0 THEN StripDir(key, key0) ELSE EmptyStr) ELSE key

\* after Popen of `aws s3 ls --recursive path`: dirs = set(), nothing emitted
InitS3Walk ==
    /\ scans = <<>>
    /\ blobs = <<>>
    /\ resp = [op |-> "none"]
    /\ cache = <<>>
    /\ pcache = <<>>
    /\ gc = [pc |-> "idle"]
    /\ progress = {}
    /\ job = <<>>
    /\ \E K \in SUBSET S3Keys : \E path \in S3Roots :
          /\ fs = [ local |-> Worlds[1].local,
                    s3    |-> [key \in K |-> [size |-> Blk(key), mtime |-> Blk(key)]] ]
          /\ walk = [ pc |-> "listing", path |-> path, lines |-> S3Listing(fs, path),
                      dirs |-> {}, emitted |-> <<>>, observed |-> {} ]

\* one iteration of `for line in proc.stdout`: the new directories, then the file
S3Line ==
    /\ walk.pc = "listing" /\ walk.lines # <<>>
    /\ LET ln   == Head(walk.lines)
           key0 == S3Key0(walk.path)
           rel  == S3RelPath(ln.key, key0)
           recs == S3Emit(<<ln>>, walk.dirs, walk.path[3], key0)
       IN  walk' = [walk EXCEPT
                      !.lines = Tail(@),
                      !.dirs = @ \cup {recs[i].path : i \in {j \in 1..Len(recs) : recs[j].kind = "dir"}},
                      !.emitted = @ \o recs,
                      !.observed = IF rel = EmptyStr THEN @ ELSE @ \cup {rel}]
    /\ UNCHANGED <<fs, scans, blobs, resp, cache, pcache, gc, progress, job>>

\* end of the listing: the generator returns
S3Eof ==
    /\ walk.pc = "listing" /\ walk.lines = <<>>
    /\ walk' = [walk EXCEPT !.pc = "done"]
    /\ UNCHANGED <<fs, scans, blobs, resp, cache, pcache, gc, progress, job>>

NextS3Walk == S3Line \/ S3Eof

SpecS3Walk == InitS3Walk /\ [][NextS3Walk]_vars

(* Properties of the object-store walker *)

\* the prefixes of a relative key: its proper ancestors and the scan root ''
KeyPrefixes(rel) == {EmptyStr} \cup {SubSeq(rel, 1, n) : n \in 1..(Len(rel) - 1)}

\* record r lies beneath directory d
Beneath(r, d) ==
    IF d = EmptyStr THEN ~(r.kind = "dir" /\ r.path = EmptyStr)
    ELSE StartsWithDir(r.path, d)

\* C22: the walker emits exactly one directory record for each prefix of an
\* observed key, the scan root included, and each directory record comes
\* before the record of every file or directory beneath it.
C22_OneDirRecordPerPrefixBeforeItsContents ==
    LET E    == walk.emitted
        dirI == {i \in 1..Len(E) : E[i].kind = "dir"}
        pre  == UNION {KeyPrefixes(rel) : rel \in walk.observed}
    IN  /\ \A p \in pre : Cardinality({i \in dirI : E[i].path = p}) = 1
        /\ \A i \in dirI : E[i].path \in pre
        /\ \A i \in dirI : \A j \in 1..Len(E) :
              (j # i /\ Beneath(E[j], E[i].path)) => i < j
        /\ walk.pc = "done" => E = s3_files_iter(fs, walk.path)

\* a finished walk that emitted nested directories and two files of one directory
C22_Witness ==
    /\ walk.pc = "done"
    /\ \E i \in 1..Len(walk.emitted) :
          walk.emitted[i].kind = "dir" /\ Len(walk.emitted[i].path) = 2
    /\ \E i, j \in 1..Len(walk.emitted) :
          /\ i # j
          /\ walk.emitted[i].kind = "file" /\ walk.emitted[j].kind = "file"
          /\ walk.emitted[i].parent = walk.emitted[j].parent
          /\ walk.emitted[i].parent # EmptyStr

----------------------------------------------------------------------------
(* Two runs of the aggregator over the same records: find/index.py, index  *)

MaxRecs == 5       \* walker records of a source whose deliveries are compared

\* the sources: the trees under /t and the listings of bucket k
AggLocalWorlds == {World(f, 1, 1) : f \in Shapes}
AggS3Worlds ==
    {[ local |-> Worlds[1].local,
       s3    |-> [key \in K |-> [size |-> Blk(key), mtime |-> Blk(key)]] ] : K \in SUBSET S3Keys}

\* the orders in which the records recs can be delivered
Deliveries(recs) ==
    LET n == Len(recs)
    IN  {[i \in 1..n |-> recs[f[i]]] :
            f \in {g \in [1..n -> 1..n] : \A i, j \in 1..n : g[i] = g[j] => i = j}}

InitAgg ==
    /\ scans = <<>>
    /\ blobs = <<>>
    /\ resp = [op |-> "none"]
    /\ cache = <<>>
    /\ pcache = <<>>
    /\ gc = [pc |-> "idle"]
    /\ progress = {}
    /\ job = <<>>
    /\ \E path \in {TRoot, KRoot} :
          /\ fs \in (IF path = TRoot THEN AggLocalWorlds ELSE AggS3Worlds)
          /\ Len(files_iter(fs, path)) <= MaxRecs
          /\ walk = [pc |-> "first", path |-> path, recs |-> files_iter(fs, path),
                     delivered |-> <<>>]

\* find.index over the records as the walker emits them
AggFirst ==
    /\ walk.pc = "first"
    /\ \E t \in IndexTables(walk.recs, walk.path) : blobs' = (1 :> t)
    /\ walk' = [walk EXCEPT !.pc = "second"]
    /\ UNCHANGED <<fs, scans, resp, cache, pcache, gc, progress, job>>

\* find.index over the same records delivered in any order; the same
\* delivery gives the same table
AggSecond ==
    /\ walk.pc = "second"
    /\ \E recs \in Deliveries(walk.recs) :
          /\ \E t \in IndexTables(recs, walk.path) :
                /\ recs = walk.recs => t = blobs[1]
                /\ blobs' = blobs @@ (2 :> t)
          /\ walk' = [walk EXCEPT !.pc = "done", !.delivered = recs]
    /\ UNCHANGED <<fs, scans, resp, cache, pcache, gc, progress, job>>

NextAgg == AggFirst \/ AggSecond

SpecAgg == InitAgg /\ [][NextAgg]_vars

(* Properties of the aggregator's determinism *)

UniquePaths(t) == \A i, j \in 1..Len(t) : t[i].path = t[j].path => i = j

\* the same for the sources in which no file shares its path with a directory
C23_EqualWhenPathsUnique ==
    (walk.pc = "done" /\ UniquePaths(blobs[1])) => blobs[1] = blobs[2]

\* up to the order of the rows of equal path the two tables are equal
C23_EqualUpToTies ==
    walk.pc = "done" =>
        /\ Rows(blobs[1]) = Rows(blobs[2])
        /\ Len(blobs[1]) = Len(blobs[2])
        /\ \A i \in 1..Len(blobs[1]) : blobs[1][i].path = blobs[2][i].path

----------------------------------------------------------------------------
(* The slice cache under concurrent requests: server.py,                   *)
(* load_parquet_with_depth_filter.  Here every entry of _parquet_cache     *)
(* carries its cached_time, which the eviction compares; every request is  *)
(* a thread of the server, and a thread can be suspended between any two   *)
(* statements.                                                             *)

PARQUET_CACHE_MAX_SIZE == 10

MaxThreads == 2    \* request threads
MaxLoads   == 13   \* loads that are followed (each takes a new clock value)

\* the depth bounds of a slice (Null = no bound)
MinDepthArgs == <<Null, 0, 1>>
MaxDepthArgs == <<Null, 0, 1, 2>>

\* the cache keys, the slices of blob 1, in the order in which new slices
\* are asked for
SliceSeq ==
    [i \in 1..(Len(MinDepthArgs) * Len(MaxDepthArgs)) |->
        <<1, MinDepthArgs[((i - 1) \div Len(MaxDepthArgs)) + 1],
             MaxDepthArgs[((i - 1) % Len(MaxDepthArgs)) + 1]>>]

InitCache ==
    /\ fs = Worlds[1]
    /\ scans = <<>>
    /\ blobs = (1 :> index(Worlds[1], TRoot))
    /\ resp = [op |-> "none"]
    /\ cache = <<>>
    /\ pcache = <<>>
    /\ gc = [pc |-> "idle"]
    /\ progress = {}
    /\ job = [t \in 1..MaxThreads |-> [pc |-> "idle"]]
    /\ walk = [pc |-> "idle"]

\* time.time(): later than every time taken before
Now ==
    Max({pcache[k].time : k \in DOMAIN pcache}
        \cup {job[t].now : t \in {u \in DOMAIN job : job[u].pc # "idle"}} \cup {0}) + 1

\* the keys of the entries with the least cached_time
Oldest == {k \in DOMAIN pcache : \A j \in DOMAIN pcache : pcache[k].time <= pcache[j].time}

\* the slices a request asks for: one that is not cached (the first such of
\* the enumeration), or, while no other request runs, the oldest cached one
\* after its TTL has run out
Misses ==
    LET held  == {job[t].key : t \in {u \in DOMAIN job : job[u].pc # "idle"}}
        fresh == {i \in 1..Len(SliceSeq) : SliceSeq[i] \notin DOMAIN pcache \cup held}
    IN  (IF fresh = {} THEN {} ELSE {SliceSeq[CHOOSE i \in fresh : \A j \in fresh : i <= j]})
          \cup (IF \A u \in DOMAIN job : job[u].pc = "idle" THEN Oldest ELSE {})

\* a request misses the cache and reads the slice from the blob
LoadFromDisk(t) ==
    /\ job[t].pc = "idle"
    /\ Now <= MaxLoads
    /\ \E key \in Misses :
          job' = [job EXCEPT ![t] = [pc |-> "check", key |-> key, now |-> Now,
                                     df |-> ReadSlice(key[1], key[2], key[3])]]
    /\ UNCHANGED <<fs, scans, blobs, resp, cache, pcache, gc, progress, walk>>

\* if len(_parquet_cache) >= PARQUET_CACHE_MAX_SIZE
CheckSize(t) ==
    /\ job[t].pc = "check"
    /\ job' = [job EXCEPT ![t].pc =
                  IF Cardinality(DOMAIN pcache) >= PARQUET_CACHE_MAX_SIZE THEN "oldest" ELSE "store"]
    /\ UNCHANGED <<fs, scans, blobs, resp, cache, pcache, gc, progress, walk>>

\* oldest_key = min(_parquet_cache.keys(), key=cached_time)
PickOldest(t) ==
    /\ job[t].pc = "oldest"
    /\ \/ /\ Oldest # {}
          /\ \E k \in Oldest :
                job' = [job EXCEPT ![t] = [pc |-> "del", key |-> job[t].key, now |-> job[t].now,
                                           df |-> job[t].df, oldest_key |-> k]]
       \/ /\ Oldest = {}                 \* min() of an empty sequence raises
          /\ job' = [job EXCEPT ![t] = [pc |-> "idle"]]
    /\ UNCHANGED <<fs, scans, blobs, resp, cache, pcache, gc, progress, walk>>

\* del _parquet_cache[oldest_key]; a key another thread has deleted raises
\* KeyError and the request fails
DelOldest(t) ==
    /\ job[t].pc = "del"
    /\ IF job[t].oldest_key \in DOMAIN pcache
       THEN /\ pcache' = [k \in DOMAIN pcache \ {job[t].oldest_key} |-> pcache[k]]
            /\ job' = [job EXCEPT ![t] = [pc |-> "store", key |-> job[t].key,
                                           now |-> job[t].now, df |-> job[t].df]]
       ELSE /\ pcache' = pcache
            /\ job' = [job EXCEPT ![t] = [pc |-> "idle"]]
    /\ UNCHANGED <<fs, scans, blobs, resp, cache, gc, progress, walk>>

\* _parquet_cache[cache_key] = (now, df); return df
Store(t) ==
    /\ job[t].pc = "store"
    /\ pcache' = [k \in DOMAIN pcache \cup {job[t].key} |->
                     IF k = job[t].key THEN [time |-> job[t].now, df |-> job[t].df]
                     ELSE pcache[k]]
    /\ job' = [job EXCEPT ![t] = [pc |-> "idle"]]
    /\ UNCHANGED <<fs, scans, blobs, resp, cache, gc, progress, walk>>

NextCache ==
    \E t \in 1..MaxThreads :
        LoadFromDisk(t) \/ CheckSize(t) \/ PickOldest(t) \/ DelOldest(t) \/ Store(t)

SpecCache == InitCache /\ [][NextCache]_vars

(* Properties of the slice cache *)

\* C24: after any sequence of slice loads, sequential or concurrent, the
\* cache never holds more than PARQUET_CACHE_MAX_SIZE entries.
C24_CacheWithinCap ==
    Cardinality(DOMAIN pcache) <= PARQUET_CACHE_MAX_SIZE

\* what does hold: every thread past its size check can add one entry
C24_CacheWithinCapPlusThreads ==
    Cardinality(DOMAIN pcache) <= PARQUET_CACHE_MAX_SIZE + MaxThreads - 1

----------------------------------------------------------------------------
(* Scans started through the server: server.py, start_scan and             *)
(* run_scan_job.  job is running_scans; the scan itself runs in a child    *)
(* process (`disk-tree index -C path`), which shares only the catalog and  *)
(* the scans directory with the server.                                    *)

JobPaths == {TRoot, TRoot \o <<"a">>}

\* POST /api/scan/start: 409 while a job for the path is running, else a new
\* job in state 'pending' and its thread
StartScan ==
    /\ Idle
    /\ \E path \in JobPaths :
          IF \E j \in DOMAIN job : job[j].path = path /\ job[j].status = "running"
          THEN /\ resp' = [op |-> "start", code |-> 409]
               /\ UNCHANGED job
          ELSE /\ Cardinality(DOMAIN job) < MaxJobs
               /\ resp' = [op |-> "start", code |-> 200]
               /\ job' = [j \in DOMAIN job \cup {Cardinality(DOMAIN job) + 1} |->
                             IF j \in DOMAIN job THEN job[j]
                             ELSE [path |-> path, status |-> "pending", saved |-> FALSE]]
    /\ UNCHANGED <<fs, scans, blobs, cache, pcache, gc, progress, walk>>

\* run_scan_job starts: status 'running', the child process is started
JobRuns ==
    /\ \E j \in DOMAIN job :
          /\ job[j].status = "pending"
          /\ job' = [job EXCEPT ![j].status = "running"]
    /\ UNCHANGED <<fs, scans, blobs, resp, cache, pcache, gc, progress, walk>>

\* the child process: Scan.create writes the blob and commits the catalog row
JobSaves ==
    /\ Idle
    /\ NewId <= MaxScans
    /\ \E j \in DOMAIN job :
          /\ job[j].status = "running" /\ ~job[j].saved
          /\ ScanCreate(job[j].path, NewId)
          /\ job' = [job EXCEPT ![j].saved = TRUE]
    /\ UNCHANGED <<cache, pcache, gc, progress, walk>>

\* subprocess.run returns: the job's status becomes 'completed'
JobFinishes ==
    /\ \E j \in DOMAIN job :
          /\ job[j].status = "running" /\ job[j].saved
          /\ job' = [job EXCEPT ![j].status = "completed"]
    /\ UNCHANGED <<fs, scans, blobs, resp, cache, pcache, gc, progress, walk>>

\* GET /api/scans through the response cache
ListScans ==
    /\ Idle
    /\ GetScansCached
    /\ UNCHANGED <<pcache, gc, progress, job, walk>>

\* time passes: the cached list outlives its TTL
ListExpires ==
    /\ Idle
    /\ "scans_list" \in DOMAIN cache
    /\ cache' = [k \in DOMAIN cache \ {"scans_list"} |-> cache[k]]
    /\ UNCHANGED <<fs, scans, blobs, resp, pcache, gc, progress, job, walk>>

NextScanJob ==
    StartScan \/ JobRuns \/ JobSaves \/ JobFinishes \/ ListScans \/ ListExpires \/ Return

SpecScanJob == Init /\ [][NextScanJob]_vars

(* Properties of the caches across a scan *)

\* C25: once a scan's catalog row is inserted, every list-scans response
\* includes that scan (its path's most recent one): no answer computed
\* before the scan completed is served afterwards.
C25_ListShowsCompletedScans ==
    GotScans =>
        \A i \in LatestRows : \E k \in 1..Len(resp.results) : resp.results[k].id = scans[i].id

\* an answer is the catalog's list now or the list cached within the TTL
C25_ListIsCurrentOrCached ==
    GotScans =>
        \/ \E order \in TimeDescOrders(LatestRows) : resp.results = FetchScansData(order)
        \/ ("scans_list" \in DOMAIN cache /\ resp.results = cache["scans_list"])

----------------------------------------------------------------------------
(* The steps of a tracked Scan.create after find.index: sqla/model.py      *)

\* the arguments of Scan.create
CreateArgs == {TRoot, KRoot \o <<"a">>}

\* Scan.create enters with one of CreateArgs: ScanProgress.start(path)
CreateStart ==
    /\ \E pid \in (1..MaxJobs) \ DOMAIN job : \E arg \in CreateArgs :
          LET path == CreatePath(arg)
          IN  /\ progress' = WithoutProgress(StartPath(path))
                               \cup {[ path |-> StartPath(path), pid |-> pid,
                                       items_found |-> 0, status |-> "running" ]}
              /\ job' = [q \in DOMAIN job \cup {pid} |->
                            IF q = pid THEN [pc |-> "indexing", path |-> path, raised |-> FALSE]
                            ELSE job[q]]
    /\ UNCHANGED <<fs, scans, blobs, resp, cache, pcache, gc, walk>>

\* find.index returns the table; the finally clause calls finish
CreateIndexed ==
    \E pid \in DOMAIN job :
        /\ job[pid].pc = "indexing"
        /\ progress' = Finish(job[pid].path, "completed")
        /\ job' = [job EXCEPT ![pid] = [pc |-> "ended", path |-> job[pid].path, raised |-> FALSE,
                                        df |-> index(fs, job[pid].path)]]
        /\ UNCHANGED <<fs, scans, blobs, resp, cache, pcache, gc, walk>>

\* df.to_parquet(out_path)
CreateWrites ==
    \E pid \in DOMAIN job :
        /\ job[pid].pc = "ended" /\ ~job[pid].raised
        /\ blobs' = (NewBlob :> job[pid].df) @@ blobs
        /\ job' = [job EXCEPT ![pid] = [pc |-> "written", path |-> job[pid].path,
                                        raised |-> FALSE, df |-> job[pid].df, blob |-> NewBlob]]
        /\ UNCHANGED <<fs, scans, resp, cache, pcache, gc, progress, walk>>

\* db.session.add(scan); db.session.commit()
CreateSaves ==
    \E pid \in DOMAIN job :
        /\ job[pid].pc = "written"
        /\ scans' = Append(scans, CatalogRow(job[pid].df, NewId, job[pid].path, NewId,
                                             job[pid].blob))
        /\ job' = [job EXCEPT ![pid].pc = "saved"]
        /\ UNCHANGED <<fs, blobs, resp, cache, pcache, gc, progress, walk>>

NextCreate ==
    CreateStart \/ TrackUpdate \/ CreateIndexed \/ IndexRaises \/ FinallyFinish
        \/ CreateWrites \/ CreateSaves

SpecCreate == Init /\ [][NextCreate]_vars

(* Properties of the order of the steps of Scan.create *)

\* C26: on a successful tracked scan the blob is written and the catalog row
\* is committed before the progress row is removed: once find.index has
\* returned and no progress row for the path is left, the new scan is in the
\* catalog.
C26_CatalogRowBeforeProgressRemoved ==
    \A pid \in DOMAIN job :
        ( /\ job[pid].pc # "indexing" /\ ~job[pid].raised
          /\ ~\E r \in progress : r.path = job[pid].path )
        => ( /\ job[pid].pc = "saved"
             /\ \E i \in ScanIdx : scans[i].path = job[pid].path /\ scans[i].blob = job[pid].blob )

\* the order the code has: the progress row of a scan is gone before its
\* blob is written
C26_ProgressRemovedBeforeBlobWritten ==
    \A pid \in DOMAIN job :
        job[pid].pc \in {"written", "saved"} => ~\E r \in progress : r.pid = pid

----------------------------------------------------------------------------
(* `disk-tree index [-C] [-g] url`: cli/index.py, Scan.load_or_create and  *)
(* Scan.create.  job holds the options of the command that runs.           *)

IndexUrls == {TRoot, TRoot \o <<"a">>}

\* Scan.load(path): the most recent catalog row of the path, if any
Load(path) ==
    {i \in ScanIdx : /\ scans[i].path = StartPath(path)
                     /\ \A j \in ScanIdx : scans[j].path = scans[i].path
                                             => scans[j].time <= scans[i].time}

\* the command up to the entry of Scan.gc: with -C Scan.create (gc entered
\* when -g is given); without -C Scan.load_or_create, which creates when the
\* path has no scan and else returns the latest scan and enters
\* gc(path, cutoff=scan.time)
IndexRun ==
    /\ ~GcRunning
    /\ \E url \in IndexUrls : \E no_cache_read, g \in BOOLEAN :
          /\ job' = (1 :> [url |-> url, no_cache_read |-> no_cache_read, gc |-> g])
          /\ IF no_cache_read \/ Load(url) = {}
             THEN /\ NewId <= MaxScans + 1 /\ NewBlob <= MaxScans + 1
                  /\ ScanCreate(url, NewId)
                  /\ IF g THEN GcEnter(url, NewId) ELSE gc' = [pc |-> "idle"]
             ELSE /\ \E i \in Load(url) : GcEnter(url, scans[i].time)
                  /\ UNCHANGED <<fs, scans, blobs, resp>>
    /\ UNCHANGED <<cache, pcache, progress, walk>>

NextReuse == IndexRun \/ GcQuery \/ GcStat \/ GcDeleteRow \/ GcRemoveBlob

SpecReuse == Init /\ [][NextReuse]_vars

(* Properties of index runs without gc *)

\* a catalog row or a blob file is removed by the step
Removes ==
    \/ \E i \in 1..Len(scans) : \A j \in 1..Len(scans') : scans'[j].id # scans[i].id
    \/ DOMAIN blobs \ DOMAIN blobs' # {}

\* C27: catalog rows and blob files are removed only by a gc that was
\* requested: an index run without the gc option, whether it creates a scan
\* or reuses one, deletes no catalog row and no blob file.
C27_OnlyRequestedGcRemoves ==
    [][Removes => (1 \in DOMAIN job /\ job[1].gc)]_vars

\* the same for the runs with -C, which call Scan.create: without -g they
\* remove nothing
C27_CreateWithoutGcRemovesNothing ==
    [][Removes => (1 \in DOMAIN job /\ (job[1].gc \/ ~job[1].no_cache_read))]_vars

(* Properties of the catalog's denormalised statistics across deletes *)

\* the rows of path '.' of the blob of catalog row i
RootRowsOf(i) ==
    IF scans[i].blob \in DOMAIN blobs
    THEN {r \in Rows(blobs[scans[i].blob]) : r.path = Dot}
    ELSE {}

\* C28: after any sequence of scan creations and deletes, the size,
\* n_children and n_desc of every catalog row equal those of the root row of
\* the blob it points to, also after a delete has rewritten that blob.
C28_CatalogStatsEqualBlobRoot ==
    \A i \in ScanIdx : \A r \in RootRowsOf(i) :
        /\ scans[i].size = r.size
        /\ scans[i].n_children = r.n_children
        /\ scans[i].n_desc = r.n_desc

\* a delete never changes the catalog
C28_DeleteLeavesCatalog == [][resp'.op = "delete" => scans' = scans]_vars

(* Properties of compare on the files directly under the root *)

\* the rows of blob b for the entries directly under the scan root
TopRows(b) == {r \in Rows(blobs[b]) : r.depth = 1 /\ r.path # EmptyStr}

\* the response has a row for name p with status st
Reports(p, st) ==
    \E k \in 1..Len(resp.rows) : resp.rows[k].path = p /\ resp.rows[k].status = st

\* C29: for two scans whose root is uri, compare takes every direct child of
\* the root as a child of uri, files as well as directories: a file directly
\* under the root only in scan2 is reported added, one only in scan1
\* removed, and one whose size differs changed.
C29_CompareSeesFilesUnderRoot ==
    (Compared /\ resp.depth = 1) =>
        \A i \in ById(resp.scan1_id) : \A j \in ById(resp.scan2_id) :
            (scans[i].path = NormUri(resp.uri) /\ scans[j].path = NormUri(resp.uri)) =>
                LET top1 == TopRows(scans[i].blob)
                    top2 == TopRows(scans[j].blob)
                IN  /\ \A r \in top2 :
                          (r.kind = "file" /\ ~\E q \in top1 : q.path = r.path)
                              => Reports(r.path, "added")
                    /\ \A r \in top1 :
                          (r.kind = "file" /\ ~\E q \in top2 : q.path = r.path)
                              => Reports(r.path, "removed")
                    /\ \A r \in top1 : \A q \in top2 :
                          (r.kind = "file" /\ q.kind = "file" /\ q.path = r.path /\ q.size # r.size)
                              => Reports(r.path, "changed")

\* the directories directly under the root are compared
C29_CompareSeesDirsUnderRoot ==
    (Compared /\ resp.depth = 1) =>
        \A i \in ById(resp.scan1_id) : \A j \in ById(resp.scan2_id) :
            (scans[i].path = NormUri(resp.uri) /\ scans[j].path = NormUri(resp.uri)) =>
                LET top1 == TopRows(scans[i].blob)
                    top2 == TopRows(scans[j].blob)
                IN  /\ \A r \in top2 :
                          (r.kind = "dir" /\ ~\E q \in top1 : q.path = r.path)
                              => Reports(r.path, "added")
                    /\ \A r \in top1 :
                          (r.kind = "dir" /\ ~\E q \in top2 : q.path = r.path)
                              => Reports(r.path, "removed")
                    /\ \A r \in top1 : \A q \in top2 :
                          (r.kind = "dir" /\ q.kind = "dir" /\ q.path = r.path /\ q.size # r.size)
                              => Reports(r.path, "changed")

----------------------------------------------------------------------------
(* The coroutine-based tree walk: index.py, TaskPool and expand.  walk     *)
(* holds the semaphore's value and, for every path a task was made for,    *)
(* the position and the local variables of its expand call.  The root call *)
(* is awaited by the caller itself and takes no slot; every other call is  *)
(* a task made by submit_task and keeps its slot until it is done.         *)

MaxWorkers == 3    \* values of max_workers

\* path.iterdir(): the entries directly in directory n, in listing order
ChildPaths(w, n) ==
    SortedStrs({m \in DOMAIN w.local : Len(m) = Len(n) + 1 /\ StartsWithDir(m, n)})

\* itertools.batched(s, k)
RECURSIVE Batched(_, _)
Batched(s, k) ==
    IF s = <<>> THEN <<>>
    ELSE IF Len(s) <= k THEN <<s>>
    ELSE <<SubSeq(s, 1, k)>> \o Batched(SubSeq(s, k + 1, Len(s)), k)

\* a call of expand that has not run yet
NewCall == [pc |-> "stat"]

\* TaskPool(max_workers) and the root call expand(path, pool)
InitPool ==
    /\ scans = <<>>
    /\ blobs = <<>>
    /\ resp = [op |-> "none"]
    /\ cache = <<>>
    /\ pcache = <<>>
    /\ gc = [pc |-> "idle"]
    /\ progress = {}
    /\ job = <<>>
    /\ fs \in {World(f, 1, 1) : f \in Shapes}
    /\ \E max_workers \in 1..MaxWorkers :
          walk = [ max_workers |-> max_workers, semaphore |-> max_workers,
                   calls |-> (TRoot :> NewCall) ]

\* the call for n returns entry e (None is [none |-> TRUE]); a task's
\* done_callback releases its slot
Returned(n, e) ==
    [walk EXCEPT !.calls[n] = [pc |-> "done", entry |-> e],
                 !.semaphore = IF n = TRoot THEN @ ELSE @ + 1]

\* await path.stat(): a file or another entry returns at once; a directory
\* fixes its batch size from the free slots and lists its children
ExpandStat(n) ==
    /\ walk.calls[n].pc = "stat"
    /\ walk' =
         IF fs.local[n].type = "d"
         THEN LET batch_size == Max({1, walk.semaphore \div 2})
              IN  [walk EXCEPT !.calls[n] =
                      [ pc |-> "batch", num_descendants |-> 1, size |-> 0,
                        batches |-> Batched(ChildPaths(fs, n), batch_size),
                        batch |-> <<>>, pending_tasks |-> <<>> ]]
         ELSE IF fs.local[n].type = "f"
         THEN Returned(n, [size |-> fs.local[n].bytes, num_descendants |-> 1])
         ELSE Returned(n, [none |-> TRUE])
    /\ UNCHANGED <<fs, scans, blobs, resp, cache, pcache, gc, progress, job>>

\* `for batch in batched(...)`: the next batch, or the directory's entry
ExpandBatch(n) ==
    /\ walk.calls[n].pc = "batch"
    /\ walk' =
         IF walk.calls[n].batches = <<>>
         THEN Returned(n, [size |-> walk.calls[n].size,
                           num_descendants |-> walk.calls[n].num_descendants])
         ELSE [walk EXCEPT !.calls[n].pc = "submit",
                           !.calls[n].batch = Head(walk.calls[n].batches),
                           !.calls[n].batches = Tail(walk.calls[n].batches),
                           !.calls[n].pending_tasks = <<>>]
    /\ UNCHANGED <<fs, scans, blobs, resp, cache, pcache, gc, progress, job>>

\* await pool.submit_task(expand(child, ...)): waits for a free slot, takes
\* it and makes the task
ExpandSubmit(n) ==
    /\ walk.calls[n].pc = "submit"
    /\ IF walk.calls[n].batch = <<>>
       THEN walk' = [walk EXCEPT !.calls[n].pc = "await"]
       ELSE /\ walk.semaphore > 0
            /\ LET child == Head(walk.calls[n].batch)
               IN  walk' = [walk EXCEPT
                              !.semaphore = @ - 1,
                              !.calls = [m \in DOMAIN @ \cup {child} |->
                                           IF m = child THEN NewCall
                                           ELSE IF m = n
                                           THEN [@[n] EXCEPT !.batch = Tail(@),
                                                             !.pending_tasks = Append(@, child)]
                                           ELSE @[m]]]
    /\ UNCHANGED <<fs, scans, blobs, resp, cache, pcache, gc, progress, job>>

\* `entry = await task` for the tasks of the batch, in order
ExpandAwait(n) ==
    /\ walk.calls[n].pc = "await"
    /\ IF walk.calls[n].pending_tasks = <<>>
       THEN walk' = [walk EXCEPT !.calls[n].pc = "batch"]
       ELSE LET child == Head(walk.calls[n].pending_tasks)
                entry == walk.calls[child].entry
            IN  /\ walk.calls[child].pc = "done"
                /\ walk' = [walk EXCEPT
                              !.calls[n].pending_tasks = Tail(@),
                              !.calls[n].size =
                                  IF "none" \in DOMAIN entry THEN @ ELSE @ + entry.size,
                              !.calls[n].num_descendants =
                                  IF "none" \in DOMAIN entry THEN @ ELSE @ + entry.num_descendants]
    /\ UNCHANGED <<fs, scans, blobs, resp, cache, pcache, gc, progress, job>>

NextPool ==
    \/ \E n \in DOMAIN walk.calls : ExpandStat(n)
    \/ \E n \in DOMAIN walk.calls : ExpandBatch(n)
    \/ \E n \in DOMAIN walk.calls : ExpandSubmit(n)
    \/ \E n \in DOMAIN walk.calls : ExpandAwait(n)

\* the event loop runs a call that can go on
SpecPool == InitPool /\ [][NextPool]_vars /\ WF_vars(NextPool)

(* Properties of the coroutine-based walk *)

\* C30: the walk terminates on every finite tree for every max_workers >= 1:
\* directory tasks that keep their slot while they await their children
\* never fill the pool with tasks that wait for a slot.
C30_PoolWalkTerminates == <>(walk.calls[TRoot].pc = "done")

\* the walk ends when no chain of directories below the root is longer than
\* max_workers
C30_TerminatesWithinDepth ==
    (\A m \in DOMAIN fs.local :
        (fs.local[m].type = "d" /\ ChildPaths(fs, m) # <<>>) =>
            Len(m) - Len(TRoot) < walk.max_workers)
        => <>(walk.calls[TRoot].pc = "done")

\* what a finished walk returns: the sum of the sizes of the files and the
\* number of files and directories
C30_RootEntryTotals ==
    walk.calls[TRoot].pc = "done" =>
        /\ walk.calls[TRoot].entry.num_descendants =
              Cardinality({m \in DOMAIN fs.local : fs.local[m].type \in {"f", "d"}})
        /\ walk.calls[TRoot].entry.size =
              SumOfSet({m \in DOMAIN fs.local : fs.local[m].type = "f"},
                       LAMBDA m : fs.local[m].bytes)

====
